---- MODULE Spec2Model ----
(***************************************************************************)
(* uMCP (uWAVE_Example_2.ino): the reliable-delivery data-link protocol of *)
(* the uWAVE Arduino examples.  CRC8, the framer, the byte-at-a-time       *)
(* deframer, the interval timers and the protocol state machine are        *)
(* translated function by function; a node is a record of the sketch's     *)
(* globals and every C function is an operator from node record to node    *)
(* record.                                                                 *)
(***************************************************************************)
EXTENDS Integers, Sequences, FiniteSets, TLC

(***************************************************************************)
(* Program constants                                                       *)
(***************************************************************************)
uMCP_PTYPE_ACK == 33
uMCP_PTYPE_REP == 34
uMCP_PTYPE_STA == 36
uMCP_PTYPE_STR == 40
uMCP_PTYPE_DTA == 17
uMCP_PTYPE_DTE == 49
uMCP_PTYPE_INVALID == 50

uMCP_STATE_HALTED == 0
uMCP_STATE_ISTART == 1
uMCP_STATE_ASTART == 2
uMCP_STATE_RUNNING == 3

uMCP_Timer_TMO == 0
uMCP_Timer_SELECT == 1
uMCP_Timer_TX == 2
uMCP_Timer_INVALID == 3

CFG_DEFAULT_TID == 0
CFG_DEFAULT_SID == 0
CFG_SELECT_DEFAULT_STATE == TRUE

UMCP_SIGN == 173
UMCP_MAX_DATA_SIZE == 32
UMCP_MAX_SENT_BLOCKS == 8
UMCP_PIPELINE_LIMIT == 4
CR_RING_SIZE == UMCP_MAX_SENT_BLOCKS * UMCP_MAX_DATA_SIZE

CFG_DATABLOCK_SIZE == 32

ByteMod == 256
Byte == 0 .. 255

(***************************************************************************)
(* CRC8                                                                    *)
(***************************************************************************)
RECURSIVE XorBits(_, _, _)
XorBits(a, b, k) ==
  IF k = 0 THEN 0
  ELSE (((a % 2) + (b % 2)) % 2) + 2 * XorBits(a \div 2, b \div 2, k - 1)

\* the C operator ^ on two bytes
XorTab == [a \in Byte |-> [b \in Byte |-> XorBits(a, b, 8)]]

Xor(a, b) == XorTab[a][b]

CRC8Table ==
    << 0, 49, 98, 83, 196, 245, 166, 151, 185, 136, 219, 234, 125, 76, 31, 46,
       67, 114, 33, 16, 135, 182, 229, 212, 250, 203, 152, 169, 62, 15, 92, 109,
       134, 183, 228, 213, 66, 115, 32, 17, 63, 14, 93, 108, 251, 202, 153, 168,
       197, 244, 167, 150, 1, 48, 99, 82, 124, 77, 30, 47, 184, 137, 218, 235,
       61, 12, 95, 110, 249, 200, 155, 170, 132, 181, 230, 215, 64, 113, 34, 19,
       126, 79, 28, 45, 186, 139, 216, 233, 199, 246, 165, 148, 3, 50, 97, 80,
       187, 138, 217, 232, 127, 78, 29, 44, 2, 51, 96, 81, 198, 247, 164, 149,
       248, 201, 154, 171, 60, 13, 94, 111, 65, 112, 35, 18, 133, 180, 231, 214,
       122, 75, 24, 41, 190, 143, 220, 237, 195, 242, 161, 144, 7, 54, 101, 84,
       57, 8, 91, 106, 253, 204, 159, 174, 128, 177, 226, 211, 68, 117, 38, 23,
       252, 205, 158, 175, 56, 9, 90, 107, 69, 116, 39, 22, 129, 176, 227, 210,
       191, 142, 221, 236, 123, 74, 25, 40, 6, 55, 100, 85, 194, 243, 160, 145,
       71, 118, 37, 20, 131, 178, 225, 208, 254, 207, 156, 173, 58, 11, 88, 105,
       4, 53, 102, 87, 192, 241, 162, 147, 189, 140, 223, 238, 121, 72, 27, 42,
       193, 240, 163, 146, 5, 52, 103, 86, 120, 73, 26, 43, 188, 141, 222, 239,
       130, 179, 224, 209, 70, 119, 36, 21, 59, 10, 89, 104, 255, 206, 157, 172 >>

CRC8_Update(prev, next) == CRC8Table[Xor(prev, next) + 1]

(***************************************************************************)
(* Sequencing.  Bind(v, F) is F applied to the value of v: v is computed   *)
(* once, as the C statement  x = v;  computes it once before the           *)
(* statements that read x.                                                 *)
(***************************************************************************)
Val(S) == CHOOSE v \in S : TRUE

Bind(v, F(_)) == Val({F(t) : t \in {v}})

\* The loop of CRC8_Get over the C indexes lo .. hi of buffer (a sequence:
\* the C index i is buffer[i + 1]), entered with crc.  The range is halved
\* to keep the evaluation shallow; the bytes are taken in order.
RECURSIVE CRC8_Loop(_, _, _, _)
CRC8_Loop(buffer, lo, hi, crc) ==
  IF lo > hi THEN crc
  ELSE IF lo = hi THEN CRC8_Update(crc, buffer[lo + 1])
  ELSE Bind(CRC8_Loop(buffer, lo, (lo + hi) \div 2, crc),
       LAMBDA c : CRC8_Loop(buffer, ((lo + hi) \div 2) + 1, hi, c))

\* a CRC8_Get whose loop stops one byte early
CRC8_GetShort(buffer, sIdx, cnt) == CRC8_Loop(buffer, sIdx, sIdx + cnt - 2, 255)

CRC8_Get(buffer, sIdx, cnt) == CRC8_Loop(buffer, sIdx, sIdx + cnt - 1, 255)

(***************************************************************************)
(* A node: the globals of the sketch.  ol_buffer and oh_buffer are kept as *)
(* the sequence of their first ol_cnt / oh_cnt bytes (the only bytes ever  *)
(* written out).  overflow records that "TX OVERFLOW" was printed; oob     *)
(* records that a store went outside sentBlocksSize/sentBlocksRPos or      *)
(* ip_datablock (the store itself lands in memory the model does not       *)
(* hold); rearmed holds the timers armed during the current pass of loop() *)
(* and is empty between passes.                                            *)
(***************************************************************************)
TimerIds == 0 .. (uMCP_Timer_INVALID - 1)

InitNode ==
  [ ih_ring |-> [i \in 0 .. (CR_RING_SIZE - 1) |-> 0],
    ih_rPos |-> 0, ih_wPos |-> 0, ih_Cnt |-> 0,
    oh_buffer |-> << >>, oh_ready |-> FALSE,
    ol_buffer |-> << >>, ol_ready |-> FALSE,
    ip_datablock |-> [i \in 0 .. (UMCP_MAX_DATA_SIZE - 1) |-> 0],
    ip_start |-> FALSE, ip_pos |-> 0, ip_sid |-> 0, ip_tid |-> 0,
    ip_type |-> uMCP_PTYPE_INVALID, ip_tcnt |-> 0, ip_rcnt |-> 0,
    ip_ahchk |-> 0, ip_dcnt |-> 0, ip_ready |-> FALSE,
    R |-> 0, N |-> 0, A |-> 0,
    selectDefaultState |-> CFG_SELECT_DEFAULT_STATE,
    select |-> CFG_SELECT_DEFAULT_STATE,
    state |-> uMCP_STATE_HALTED,
    sack |-> FALSE, srep |-> FALSE, isTimerPendingOnTxFinish |-> FALSE,
    iTimer_State |-> [t \in TimerIds |-> FALSE],
    sentBlocksSize |-> [i \in 0 .. (UMCP_MAX_SENT_BLOCKS - 1) |-> 0],
    sentBlocksRPos |-> [i \in 0 .. (UMCP_MAX_SENT_BLOCKS - 1) |-> 0],
    sentBlocksCnt |-> 0,
    overflow |-> FALSE, oob |-> FALSE, rearmed |-> {} ]

(***************************************************************************)
(* Inputs of one pass of loop() that the code reads from outside:          *)
(*   nagle  the value of (ih_TS + CFG_NAGLE_DELAY_MS < millis()); ih_TS    *)
(*          is an unsigned int and millis() an unsigned long, so the       *)
(*          outcome is a function of the clock alone;                      *)
(*   wild   the byte a load outside an array yields.                       *)
(***************************************************************************)
WildBytes == {0, 1}

(***************************************************************************)
(* Interval timers                                                         *)
(***************************************************************************)
uMCP_ITimer_StateSet(s, timerID, value) ==
  IF value
  THEN [s EXCEPT !.iTimer_State[timerID] = TRUE, !.rearmed = @ \cup {timerID}]
  ELSE [s EXCEPT !.iTimer_State[timerID] = FALSE]

uMCP_ITimer_Init(s, timerID, istate) == uMCP_ITimer_StateSet(s, timerID, istate)

(***************************************************************************)
(* Utils                                                                   *)
(***************************************************************************)
\* The loop of uMCP_IsByteInRangeExclusive steps idx over st+1, st+2, ... and
\* stops after idx = nd-1 (all mod 256): it runs (nd - 1 - st) mod 256 times,
\* none when st = nd-1 and 255 when st = nd.
RangeSteps(st, nd) == (nd + ByteMod - 1 + ByteMod - st) % ByteMod

uMCP_IsByteInRangeExclusive(st, nd, val) ==
  \E k \in 1 .. RangeSteps(st, nd) : ((st + k) % ByteMod) = val

(***************************************************************************)
(* The sent-block window.  The arrays have UMCP_MAX_SENT_BLOCKS elements   *)
(* and the code indexes them with a byte.                                  *)
(***************************************************************************)
WinIdx(i) == i \in 0 .. (UMCP_MAX_SENT_BLOCKS - 1)

sentBlocksSize_Get(s, in, i) == IF WinIdx(i) THEN s.sentBlocksSize[i] ELSE in.wild

sentBlocksRPos_Get(s, in, i) == IF WinIdx(i) THEN s.sentBlocksRPos[i] ELSE in.wild

sentBlocksSize_Put(s, i, v) ==
  IF WinIdx(i) THEN [s EXCEPT !.sentBlocksSize[i] = v] ELSE [s EXCEPT !.oob = TRUE]

sentBlocksRPos_Put(s, i, v) ==
  IF WinIdx(i) THEN [s EXCEPT !.sentBlocksRPos[i] = v] ELSE [s EXCEPT !.oob = TRUE]

(***************************************************************************)
(* State management and the basic protocol routines                        *)
(***************************************************************************)
RECURSIVE uMCP_Protocol_Perform(_, _)

\* a uMCP_SELECT_Set that leaves the SELECT timer alone
SELECT_AssignNoTimer(s, value) == [s EXCEPT !.select = value]

\* uMCP_SELECT_Set up to the assignment of select
SELECT_Assign(s, value) ==
  Bind(IF s.selectDefaultState
       THEN uMCP_ITimer_StateSet(s, uMCP_Timer_SELECT, value # s.selectDefaultState)
       ELSE s,
  LAMBDA s1 : [s1 EXCEPT !.select = value])
\* a uMCP_SELECT_Set that only assigns select
uMCP_SELECT_SetOnly(s, in, value) == SELECT_Assign(s, value)


uMCP_SELECT_Set(s, in, value) ==
  Bind(SELECT_Assign(s, value),
  LAMBDA s2 :
  IF s2.select THEN uMCP_Protocol_Perform(s2, in) ELSE s2)

uMCP_STATE_Set(s, value) ==
  IF (value = uMCP_STATE_ISTART) \/ (value = uMCP_STATE_HALTED)
  THEN [s EXCEPT !.R = 0, !.N = 0, !.A = 0, !.sentBlocksCnt = 0, !.state = value]
  ELSE [s EXCEPT !.state = value]

\* the bytes uMCP_DataSend copies from ih_ring, starting at rPos
RingBytes(s, rPos, cnt) ==
  [i \in 1 .. cnt |-> s.ih_ring[(rPos + i - 1) % CR_RING_SIZE]]

\* the header of a data frame, its checksum appended
DataHeader(ptype, tcnt, rcnt) ==
  Bind(<< UMCP_SIGN, ptype, CFG_DEFAULT_SID, CFG_DEFAULT_TID, tcnt, rcnt >>,
  LAMBDA hdr : Append(hdr, CRC8_Get(hdr, 0, Len(hdr))))

\* a uMCP_DataSend whose data checksum leaves the data-count byte out
DataFrameShortCrc(ptype, tcnt, rcnt, payload) ==
  Bind(DataHeader(ptype, tcnt, rcnt),
  LAMBDA hb :
  Bind(hb \o << Len(payload) % ByteMod >> \o payload,
  LAMBDA body : Append(body, CRC8_Get(body, Len(hb) + 1, Len(payload)))))

DataFrame(ptype, tcnt, rcnt, payload) ==
  Bind(DataHeader(ptype, tcnt, rcnt),
  LAMBDA hb :
  Bind(hb \o << Len(payload) % ByteMod >> \o payload,
  LAMBDA body : Append(body, CRC8_Get(body, Len(hb), Len(payload) + 1))))
\* a uMCP_DataSend that gives SELECT up after a DTA as after a DTE
uMCP_DataSendRelease(s, in, isDTE, tcnt, rcnt, rPos, cnt, isStartTimer) ==
  Bind(RingBytes(s, rPos, cnt),
  LAMBDA payload :
  Bind([s EXCEPT !.ol_buffer = DataFrame(IF isDTE THEN uMCP_PTYPE_DTE ELSE uMCP_PTYPE_DTA,
                                         tcnt, rcnt, payload),
                 !.ol_ready = TRUE,
                 !.isTimerPendingOnTxFinish = isStartTimer],
  LAMBDA s1 :
  Bind(uMCP_ITimer_Init(s1, uMCP_Timer_TX, TRUE),
  LAMBDA s2 : uMCP_SELECT_Set(s2, in, FALSE))))


uMCP_DataSend(s, in, isDTE, tcnt, rcnt, rPos, cnt, isStartTimer) ==
  Bind(RingBytes(s, rPos, cnt),
  LAMBDA payload :
  Bind([s EXCEPT !.ol_buffer = DataFrame(IF isDTE THEN uMCP_PTYPE_DTE ELSE uMCP_PTYPE_DTA,
                                         tcnt, rcnt, payload),
                 !.ol_ready = TRUE,
                 !.isTimerPendingOnTxFinish = isStartTimer],
  LAMBDA s1 :
  Bind(uMCP_ITimer_Init(s1, uMCP_Timer_TX, TRUE),
  LAMBDA s2 : uMCP_SELECT_Set(s2, in, ~isDTE))))

\* a uMCP_NextDataBlockSend that ignores UMCP_PIPELINE_LIMIT
uMCP_NextDataBlockSendNoLimit(s, in) ==
  LET short == s.ih_Cnt < CFG_DATABLOCK_SIZE
      pcnt  == IF short THEN s.ih_Cnt ELSE CFG_DATABLOCK_SIZE
  IN  Bind(uMCP_DataSend(s, in, short, s.N, s.R, s.ih_rPos, pcnt, short),
      LAMBDA s1 :
      Bind(sentBlocksRPos_Put(s1, s1.N, s1.ih_rPos % ByteMod),
      LAMBDA s2 :
      Bind(sentBlocksSize_Put(s2, s2.N, pcnt),
      LAMBDA s3 :
      [s3 EXCEPT !.sentBlocksCnt = (@ + 1) % ByteMod,
                 !.ih_rPos = (@ + pcnt) % CR_RING_SIZE,
                 !.ih_Cnt = @ - pcnt])))

uMCP_NextDataBlockSend(s, in) ==
  LET short == s.ih_Cnt < CFG_DATABLOCK_SIZE
      isDTE == (s.sentBlocksCnt >= UMCP_PIPELINE_LIMIT) \/ short
      pcnt  == IF short THEN s.ih_Cnt ELSE CFG_DATABLOCK_SIZE
  IN  Bind(uMCP_DataSend(s, in, isDTE, s.N, s.R, s.ih_rPos, pcnt, isDTE),
      LAMBDA s1 :
      Bind(sentBlocksRPos_Put(s1, s1.N, s1.ih_rPos % ByteMod),
      LAMBDA s2 :
      Bind(sentBlocksSize_Put(s2, s2.N, pcnt),
      LAMBDA s3 :
      [s3 EXCEPT !.sentBlocksCnt = (@ + 1) % ByteMod,
                 !.ih_rPos = (@ + pcnt) % CR_RING_SIZE,
                 !.ih_Cnt = @ - pcnt])))

\* a uMCP_DataBlockResend that numbers the block it sends again with N
uMCP_DataBlockResendAsNewest(s, in, blockId, isDTE, isStartTimer) ==
  IF sentBlocksSize_Get(s, in, blockId) # 0
  THEN uMCP_DataSend(s, in, isDTE, s.N, s.R, sentBlocksRPos_Get(s, in, blockId),
                     sentBlocksSize_Get(s, in, blockId), isStartTimer)
  ELSE s

uMCP_DataBlockResend(s, in, blockId, isDTE, isStartTimer) ==
  IF sentBlocksSize_Get(s, in, blockId) # 0
  THEN uMCP_DataSend(s, in, isDTE, blockId, s.R, sentBlocksRPos_Get(s, in, blockId),
                     sentBlocksSize_Get(s, in, blockId), isStartTimer)
  ELSE s

CtrlFrame(ptype, tcnt, rcnt) ==
  Bind(<< UMCP_SIGN, ptype, CFG_DEFAULT_SID, CFG_DEFAULT_TID >>
         \o (IF (ptype = uMCP_PTYPE_REP) \/ (ptype = uMCP_PTYPE_ACK)
             THEN << tcnt >> \o (IF ptype = uMCP_PTYPE_ACK THEN << rcnt >> ELSE << >>)
             ELSE << >>),
  LAMBDA hdr : Append(hdr, CRC8_Get(hdr, 0, Len(hdr))))

uMCP_CtrlSend(s, in, ptype, tcnt, rcnt, isStartTimer) ==
  Bind([s EXCEPT !.ol_buffer = CtrlFrame(ptype, tcnt, rcnt),
                 !.ol_ready = TRUE,
                 !.isTimerPendingOnTxFinish = isStartTimer],
  LAMBDA s1 :
  Bind(uMCP_ITimer_Init(s1, uMCP_Timer_TX, TRUE),
  LAMBDA s2 : uMCP_SELECT_Set(s2, in, FALSE)))

\* The loop of uMCP_AcknowledgeSentItems runs (to - A) mod 256 times; pass k
\* clears sentBlocksSize[A + k], decrements sentBlocksCnt and increments A.
AckSteps(s, to) == (to + ByteMod - s.A) % ByteMod

AckSlots(s, to) == {(s.A + k) % ByteMod : k \in 0 .. (AckSteps(s, to) - 1)}

uMCP_AcknowledgeSentItems(s, to) ==
  Bind(AckSlots(s, to),
  LAMBDA slots :
  [s EXCEPT !.sentBlocksSize = [i \in DOMAIN @ |-> IF i \in slots THEN 0 ELSE @[i]],
            !.oob = @ \/ (\E i \in slots : ~WinIdx(i)),
            !.sentBlocksCnt = (@ + ByteMod - AckSteps(s, to)) % ByteMod,
            !.A = to])

\* a uMCP_Protocol_Perform that does not test select
uMCP_Protocol_PerformNoSelect(s, in) ==
  IF s.state = uMCP_STATE_RUNNING
     /\ (~s.iTimer_State[uMCP_Timer_TX])
     /\ (~s.iTimer_State[uMCP_Timer_TMO])
  THEN IF s.ih_Cnt = 0
       THEN IF s.srep
            THEN [uMCP_CtrlSend(s, in, uMCP_PTYPE_REP, s.N, 0, TRUE) EXCEPT !.srep = FALSE]
            ELSE IF s.sentBlocksCnt > 0
            THEN uMCP_DataBlockResend(s, in, (s.A + 1) % ByteMod, TRUE, TRUE)
            ELSE IF (~s.selectDefaultState) \/ s.sack
            THEN [uMCP_CtrlSend(s, in, uMCP_PTYPE_ACK, s.N, s.R, FALSE) EXCEPT !.sack = FALSE]
            ELSE s
       ELSE IF (s.ih_Cnt >= CFG_DATABLOCK_SIZE) \/ in.nagle
            THEN Bind([s EXCEPT !.N = (@ + 1) % ByteMod],
                 LAMBDA s1 : uMCP_NextDataBlockSend(s1, in))
            ELSE s
  ELSE s

uMCP_Protocol_Perform(s, in) ==
  IF s.state = uMCP_STATE_RUNNING
     /\ (~s.iTimer_State[uMCP_Timer_TX])
     /\ (~s.iTimer_State[uMCP_Timer_TMO])
     /\ s.select
  THEN IF s.ih_Cnt = 0
       THEN IF s.srep
            THEN [uMCP_CtrlSend(s, in, uMCP_PTYPE_REP, s.N, 0, TRUE) EXCEPT !.srep = FALSE]
            ELSE IF s.sentBlocksCnt > 0
            THEN uMCP_DataBlockResend(s, in, (s.A + 1) % ByteMod, TRUE, TRUE)
            ELSE IF (~s.selectDefaultState) \/ s.sack
            THEN [uMCP_CtrlSend(s, in, uMCP_PTYPE_ACK, s.N, s.R, FALSE) EXCEPT !.sack = FALSE]
            ELSE s
       ELSE IF (s.ih_Cnt >= CFG_DATABLOCK_SIZE) \/ in.nagle
            THEN Bind([s EXCEPT !.N = (@ + 1) % ByteMod],
                 LAMBDA s1 : uMCP_NextDataBlockSend(s1, in))
            ELSE s
  ELSE s

(***************************************************************************)
(* Incoming packet                                                         *)
(***************************************************************************)
\* ff_copy_u8(ip_datablock, oh_buffer, dcnt)
CopyDatablock(s, in, dcnt) ==
  [i \in 1 .. dcnt |->
     IF (i - 1) < UMCP_MAX_DATA_SIZE THEN s.ip_datablock[i - 1] ELSE in.wild]

\* the test both the ACK branch and the DTA/DTE branch apply to rcnt
IsAcceptable(s, rcnt) == (rcnt = s.N) \/ uMCP_IsByteInRangeExclusive(s.A, s.N, rcnt)

AckIfAcceptable(s, rcnt) ==
  IF IsAcceptable(s, rcnt)
  THEN uMCP_AcknowledgeSentItems(s, rcnt)
  ELSE s

\* STATE_Set(value); iTimer_StateSet(TMO, false); CtrlSend(ptype, 0, 0, isStartTimer)
EnterAndSend(s, in, value, ptype, isStartTimer) ==
  Bind(uMCP_STATE_Set(s, value),
  LAMBDA s1 :
  Bind(uMCP_ITimer_StateSet(s1, uMCP_Timer_TMO, FALSE),
  LAMBDA s2 : uMCP_CtrlSend(s2, in, ptype, 0, 0, isStartTimer)))

\* an STR case that leaves a RUNNING board RUNNING
OnPacket_STRKeepsSession(s, in) ==
  Bind(uMCP_SELECT_Set(s, in, TRUE),
  LAMBDA s1 :
  IF (s1.state = uMCP_STATE_HALTED) \/ (s1.state = uMCP_STATE_ISTART)
  THEN EnterAndSend(s1, in, uMCP_STATE_ASTART, uMCP_PTYPE_STA, TRUE)
  ELSE IF s1.state = uMCP_STATE_ASTART
  THEN EnterAndSend(s1, in, uMCP_STATE_RUNNING, uMCP_PTYPE_ACK, FALSE)
  ELSE s1)

OnPacket_STR(s, in) ==
  Bind(uMCP_SELECT_Set(s, in, TRUE),
  LAMBDA s1 :
  IF (s1.state = uMCP_STATE_HALTED) \/ (s1.state = uMCP_STATE_ISTART)
  THEN EnterAndSend(s1, in, uMCP_STATE_ASTART, uMCP_PTYPE_STA, TRUE)
  ELSE IF s1.state = uMCP_STATE_ASTART
  THEN EnterAndSend(s1, in, uMCP_STATE_RUNNING, uMCP_PTYPE_ACK, FALSE)
  ELSE uMCP_STATE_Set(s1, uMCP_STATE_HALTED))

OnPacket_STA(s, in) ==
  Bind(uMCP_SELECT_Set(s, in, TRUE),
  LAMBDA s1 :
  IF (s1.state = uMCP_STATE_ISTART) \/ (s1.state = uMCP_STATE_ASTART)
     \/ (s1.state = uMCP_STATE_RUNNING)
  THEN EnterAndSend(s1, in, uMCP_STATE_RUNNING, uMCP_PTYPE_ACK, FALSE)
  ELSE s1)

OnPacket_REP(s, in) ==
  IF s.state = uMCP_STATE_RUNNING
  THEN Bind([s EXCEPT !.sack = TRUE, !.srep = FALSE],
       LAMBDA s1 : uMCP_SELECT_Set(s1, in, TRUE))
  ELSE s

\* the ACK case up to its call of uMCP_SELECT_Set
OnPacket_ACK_Body(s, rcnt) ==
  IF s.state = uMCP_STATE_ASTART
  THEN IF rcnt = 0
       THEN Bind(uMCP_ITimer_StateSet(s, uMCP_Timer_TMO, FALSE),
            LAMBDA t : uMCP_STATE_Set(t, uMCP_STATE_RUNNING))
       ELSE s
  ELSE IF s.state = uMCP_STATE_RUNNING
  THEN Bind(uMCP_ITimer_StateSet(s, uMCP_Timer_TMO, FALSE),
       LAMBDA t : AckIfAcceptable(t, rcnt))
  ELSE s

OnPacket_ACK(s, in, rcnt) ==
  Bind(OnPacket_ACK_Body(s, rcnt),
  LAMBDA s1 : uMCP_SELECT_Set(s1, in, TRUE))

\* an OnPacket_Data_Body that takes every block past R for the next one
OnPacket_Data_BodyAnyNext(s, in, pType, tcnt, rcnt, dcnt) ==
  Bind(IF tcnt > s.R
       THEN [s EXCEPT !.R = (@ + 1) % ByteMod,
                      !.oh_buffer = CopyDatablock(s, in, dcnt),
                      !.oh_ready = TRUE,
                      !.sack = TRUE]
       ELSE [s EXCEPT !.sack = TRUE],
  LAMBDA s1 :
  Bind([s1 EXCEPT !.iTimer_State[uMCP_Timer_TMO] = FALSE],
  LAMBDA s2 :
  Bind(AckIfAcceptable(s2, rcnt),
  LAMBDA s3 :
  IF pType = uMCP_PTYPE_DTA
  THEN uMCP_ITimer_StateSet(s3, uMCP_Timer_TMO, TRUE)
  ELSE s3)))

\* the DTA/DTE case in RUNNING up to its call of uMCP_SELECT_Set
OnPacket_Data_Body(s, in, pType, tcnt, rcnt, dcnt) ==
  Bind(IF tcnt <= s.R + 1
       THEN IF tcnt = s.R + 1
            THEN [s EXCEPT !.R = (@ + 1) % ByteMod,
                           !.oh_buffer = CopyDatablock(s, in, dcnt),
                           !.oh_ready = TRUE,
                           !.sack = TRUE]
            ELSE [s EXCEPT !.sack = TRUE]
       ELSE s,
  LAMBDA s1 :
  Bind([s1 EXCEPT !.iTimer_State[uMCP_Timer_TMO] = FALSE],
  LAMBDA s2 :
  Bind(AckIfAcceptable(s2, rcnt),
  LAMBDA s3 :
  IF pType = uMCP_PTYPE_DTA
  THEN uMCP_ITimer_StateSet(s3, uMCP_Timer_TMO, TRUE)
  ELSE s3)))

OnPacket_Data(s, in, pType, tcnt, rcnt, dcnt) ==
  IF s.state = uMCP_STATE_RUNNING
  THEN Bind(OnPacket_Data_Body(s, in, pType, tcnt, rcnt, dcnt),
       LAMBDA s4 : uMCP_SELECT_Set(s4, in, pType = uMCP_PTYPE_DTE))
  ELSE s

\* a uMCP_OnIncomingPacket that drops the frames addressed to another node
uMCP_OnIncomingPacketAddressed(s, in) ==
  Bind([s EXCEPT !.ip_ready = FALSE],
  LAMBDA s0 :
  CASE s.ip_tid # CFG_DEFAULT_SID -> s0
    [] s.ip_type = uMCP_PTYPE_STR -> OnPacket_STR(s0, in)
    [] s.ip_type = uMCP_PTYPE_STA -> OnPacket_STA(s0, in)
    [] s.ip_type = uMCP_PTYPE_REP -> OnPacket_REP(s0, in)
    [] s.ip_type = uMCP_PTYPE_ACK -> OnPacket_ACK(s0, in, s.ip_rcnt)
    [] (s.ip_type = uMCP_PTYPE_DTA) \/ (s.ip_type = uMCP_PTYPE_DTE) ->
         OnPacket_Data(s0, in, s.ip_type, s.ip_tcnt, s.ip_rcnt, s.ip_dcnt)
    [] OTHER -> s0)

uMCP_OnIncomingPacket(s, in) ==
  Bind([s EXCEPT !.ip_ready = FALSE],
  LAMBDA s0 :
  CASE s.ip_type = uMCP_PTYPE_STR -> OnPacket_STR(s0, in)
    [] s.ip_type = uMCP_PTYPE_STA -> OnPacket_STA(s0, in)
    [] s.ip_type = uMCP_PTYPE_REP -> OnPacket_REP(s0, in)
    [] s.ip_type = uMCP_PTYPE_ACK -> OnPacket_ACK(s0, in, s.ip_rcnt)
    [] (s.ip_type = uMCP_PTYPE_DTA) \/ (s.ip_type = uMCP_PTYPE_DTE) ->
         OnPacket_Data(s0, in, s.ip_type, s.ip_tcnt, s.ip_rcnt, s.ip_dcnt)
    [] OTHER -> s0)

(***************************************************************************)
(* Events: a new byte from the host or from the line                       *)
(***************************************************************************)
OnNewByte_Host(s, c) ==
  IF s.ih_Cnt <= CR_RING_SIZE
  THEN [s EXCEPT !.ih_ring[s.ih_wPos] = c,
                 !.ih_wPos = (@ + 1) % CR_RING_SIZE,
                 !.ih_Cnt = @ + 1]
  ELSE [s EXCEPT !.overflow = TRUE]

ip_datablock_Put(s, i, c) ==
  IF i \in 0 .. (UMCP_MAX_DATA_SIZE - 1)
  THEN [s EXCEPT !.ip_datablock[i] = c]
  ELSE [s EXCEPT !.oob = TRUE]

\* an OnNewByte_Tail that leaves the type of a frame with data count 0 alone
OnNewByte_TailKeepsType(s, c) ==
  IF s.ip_pos = 4
  THEN [s EXCEPT !.ip_tcnt = c, !.ip_pos = @ + 1, !.ip_ahchk = CRC8_Update(@, c)]
  ELSE IF s.ip_type = uMCP_PTYPE_REP
  THEN [s EXCEPT !.ip_ready = (s.ip_ahchk = c) \/ @, !.ip_start = FALSE]
  ELSE IF s.ip_pos = 5
  THEN [s EXCEPT !.ip_rcnt = c, !.ip_pos = @ + 1, !.ip_ahchk = CRC8_Update(@, c)]
  ELSE IF s.ip_pos = 6
  THEN IF s.ip_ahchk = c
       THEN IF s.ip_type = uMCP_PTYPE_ACK
            THEN [s EXCEPT !.ip_ready = TRUE, !.ip_start = FALSE]
            ELSE [s EXCEPT !.ip_pos = @ + 1]
       ELSE [s EXCEPT !.ip_start = FALSE]
  ELSE IF s.ip_pos = 7
  THEN IF c >= 1
       THEN [s EXCEPT !.ip_dcnt = c, !.ip_ahchk = CRC8_Update(255, c), !.ip_pos = @ + 1]
       ELSE [s EXCEPT !.ip_dcnt = c, !.ip_start = FALSE, !.ip_ready = TRUE]
  ELSE IF s.ip_pos = 8 + s.ip_dcnt
  THEN IF s.ip_ahchk = c
       THEN [s EXCEPT !.ip_ready = TRUE, !.ip_start = FALSE]
       ELSE [s EXCEPT !.ip_type = uMCP_PTYPE_ACK, !.ip_start = FALSE]
  ELSE [ip_datablock_Put(s, s.ip_pos - 8, c) EXCEPT
           !.ip_ahchk = CRC8_Update(@, c), !.ip_pos = @ + 1]

\* the branch of uMCP_OnNewByte taken at ip_pos >= 4 for a type other than
\* STR, STA: tcnt, [REP: checksum], rcnt, checksum, dcnt, data, data checksum
OnNewByte_Tail(s, c) ==
  IF s.ip_pos = 4
  THEN [s EXCEPT !.ip_tcnt = c, !.ip_pos = @ + 1, !.ip_ahchk = CRC8_Update(@, c)]
  ELSE IF s.ip_type = uMCP_PTYPE_REP
  THEN [s EXCEPT !.ip_ready = (s.ip_ahchk = c) \/ @, !.ip_start = FALSE]
  ELSE IF s.ip_pos = 5
  THEN [s EXCEPT !.ip_rcnt = c, !.ip_pos = @ + 1, !.ip_ahchk = CRC8_Update(@, c)]
  ELSE IF s.ip_pos = 6
  THEN IF s.ip_ahchk = c
       THEN IF s.ip_type = uMCP_PTYPE_ACK
            THEN [s EXCEPT !.ip_ready = TRUE, !.ip_start = FALSE]
            ELSE [s EXCEPT !.ip_pos = @ + 1]
       ELSE [s EXCEPT !.ip_start = FALSE]
  ELSE IF s.ip_pos = 7
  THEN IF c >= 1
       THEN [s EXCEPT !.ip_dcnt = c, !.ip_ahchk = CRC8_Update(255, c), !.ip_pos = @ + 1]
       ELSE [s EXCEPT !.ip_dcnt = c, !.ip_start = FALSE, !.ip_ready = TRUE,
                      !.ip_type = uMCP_PTYPE_ACK]
  ELSE IF s.ip_pos = 8 + s.ip_dcnt
  THEN IF s.ip_ahchk = c
       THEN [s EXCEPT !.ip_ready = TRUE, !.ip_start = FALSE]
       ELSE [s EXCEPT !.ip_type = uMCP_PTYPE_ACK, !.ip_start = FALSE]
  ELSE [ip_datablock_Put(s, s.ip_pos - 8, c) EXCEPT
           !.ip_ahchk = CRC8_Update(@, c), !.ip_pos = @ + 1]

OnNewByte_Line(s, c) ==
  IF s.ip_start
  THEN IF s.ip_pos = 1
       THEN IF c = uMCP_PTYPE_INVALID
            THEN [s EXCEPT !.ip_ahchk = CRC8_Update(@, c), !.ip_type = c, !.ip_start = FALSE]
            ELSE [s EXCEPT !.ip_ahchk = CRC8_Update(@, c), !.ip_type = c, !.ip_pos = @ + 1]
       ELSE IF s.ip_pos <= 3
       THEN [s EXCEPT !.ip_ahchk = CRC8_Update(@, c),
                      !.ip_tid = IF s.ip_pos = 3 THEN c ELSE @,
                      !.ip_sid = IF s.ip_pos = 2 THEN c ELSE @,
                      !.ip_pos = @ + 1]
       ELSE IF (s.ip_type = uMCP_PTYPE_STR) \/ (s.ip_type = uMCP_PTYPE_STA)
       THEN IF s.ip_ahchk = c
            THEN [s EXCEPT !.ip_start = FALSE, !.ip_ready = TRUE]
            ELSE s
       ELSE OnNewByte_Tail(s, c)
  ELSE IF c = UMCP_SIGN
  THEN [s EXCEPT !.ip_start = TRUE, !.ip_pos = 1,
                 !.ip_ahchk = CRC8_Update(255, UMCP_SIGN),
                 !.ip_type = uMCP_PTYPE_INVALID, !.ip_dcnt = 0]
  ELSE s

CFG_HOST_DC_ID == 0
CFG_LINE_DC_ID == 1

uMCP_OnNewByte(s, chID, c) ==
  IF chID = CFG_HOST_DC_ID THEN OnNewByte_Host(s, c)
  ELSE IF chID = CFG_LINE_DC_ID THEN OnNewByte_Line(s, c)
  ELSE s


(***************************************************************************)
(* Timer expiry and one pass of loop()                                     *)
(***************************************************************************)
\* a uMCP_ITimer_Expired that repeats STR and STA without asking for the
\* TIMEOUT timer to be started after the transmission
uMCP_ITimer_ExpiredOnce(s, in, timerID) ==
  IF timerID = uMCP_Timer_TMO
  THEN IF s.state = uMCP_STATE_ISTART
       THEN uMCP_CtrlSend(s, in, uMCP_PTYPE_STR, 0, 0, FALSE)
       ELSE IF s.state = uMCP_STATE_ASTART
       THEN uMCP_CtrlSend(s, in, uMCP_PTYPE_STA, 0, 0, FALSE)
       ELSE IF s.state = uMCP_STATE_RUNNING
       THEN Bind([s EXCEPT !.srep = TRUE], LAMBDA s1 : uMCP_Protocol_Perform(s1, in))
       ELSE s
  ELSE IF timerID = uMCP_Timer_SELECT
  THEN uMCP_SELECT_Set(s, in, CFG_SELECT_DEFAULT_STATE)
  ELSE IF timerID = uMCP_Timer_TX
  THEN IF s.isTimerPendingOnTxFinish /\ (~s.iTimer_State[uMCP_Timer_TMO])
       THEN Bind([s EXCEPT !.isTimerPendingOnTxFinish = FALSE],
            LAMBDA s1 : uMCP_ITimer_StateSet(s1, uMCP_Timer_TMO, TRUE))
       ELSE uMCP_Protocol_Perform(s, in)
  ELSE s

uMCP_ITimer_Expired(s, in, timerID) ==
  IF timerID = uMCP_Timer_TMO
  THEN IF s.state = uMCP_STATE_ISTART
       THEN uMCP_CtrlSend(s, in, uMCP_PTYPE_STR, 0, 0, TRUE)
       ELSE IF s.state = uMCP_STATE_ASTART
       THEN uMCP_CtrlSend(s, in, uMCP_PTYPE_STA, 0, 0, TRUE)
       ELSE IF s.state = uMCP_STATE_RUNNING
       THEN Bind([s EXCEPT !.srep = TRUE], LAMBDA s1 : uMCP_Protocol_Perform(s1, in))
       ELSE s
  ELSE IF timerID = uMCP_Timer_SELECT
  THEN uMCP_SELECT_Set(s, in, CFG_SELECT_DEFAULT_STATE)
  ELSE IF timerID = uMCP_Timer_TX
  THEN IF s.isTimerPendingOnTxFinish /\ (~s.iTimer_State[uMCP_Timer_TMO])
       THEN Bind([s EXCEPT !.isTimerPendingOnTxFinish = FALSE],
            LAMBDA s1 : uMCP_ITimer_StateSet(s1, uMCP_Timer_TMO, TRUE))
       ELSE uMCP_Protocol_Perform(s, in)
  ELSE s

\* exp is the set of timers for which millis() >= iTimer_ExpTime_ms holds in
\* this scan; a timer armed during the scan expires in a later one
RECURSIVE ITimers_Scan(_, _, _, _)
ITimers_Scan(s, in, exp, tIdx) ==
  IF tIdx < uMCP_Timer_INVALID
  THEN Bind(IF s.iTimer_State[tIdx] /\ (tIdx \in exp) /\ (tIdx \notin s.rearmed)
            THEN Bind([s EXCEPT !.iTimer_State[tIdx] = FALSE],
                 LAMBDA s1 : uMCP_ITimer_Expired(s1, in, tIdx))
            ELSE s,
       LAMBDA s2 : ITimers_Scan(s2, in, exp, tIdx + 1))
  ELSE s

uMCP_ITimers_Process(s, in, exp) == ITimers_Scan(s, in, exp, 0)

\* The timers run 10 ms (TX: UMCP_FIXED_TX_DELAY_MS, the baud-rate term is
\* (int)(bits / 9600) = 0), 1000 ms (TMO) and 4000 ms (SELECT).  TMO is armed
\* only while TX is inactive, and SELECT is re-armed at every send that arms
\* TX or TMO, so of the active timers the one to expire next is TX, then TMO,
\* then SELECT.
NextToExpire(s) ==
  IF s.iTimer_State[uMCP_Timer_TX] THEN {uMCP_Timer_TX}
  ELSE IF s.iTimer_State[uMCP_Timer_TMO] THEN {uMCP_Timer_TMO}
  ELSE IF s.iTimer_State[uMCP_Timer_SELECT] THEN {uMCP_Timer_SELECT}
  ELSE {}

\* the passes that read bytes[lo .. hi] from the line, in order (the range is
\* halved to keep the evaluation shallow)
RECURSIVE FeedLine(_, _, _, _)
FeedLine(s, bytes, lo, hi) ==
  IF lo > hi THEN s
  ELSE IF lo = hi THEN uMCP_OnNewByte(s, CFG_LINE_DC_ID, bytes[lo])
  ELSE Bind(FeedLine(s, bytes, lo, (lo + hi) \div 2),
       LAMBDA h : FeedLine(h, bytes, ((lo + hi) \div 2) + 1, hi))

uMCP_DC_Input_Process(s, hostBytes, lineBytes) ==
  Bind(IF hostBytes # << >>
       THEN uMCP_OnNewByte(s, CFG_HOST_DC_ID, hostBytes[1])
       ELSE s,
  LAMBDA s1 : FeedLine(s1, lineBytes, 1, Len(lineBytes)))

\* Serial.write(oh_buffer, oh_cnt) and Serial1.write(ol_buffer, ol_cnt).  The
\* bytes left in the two buffers are never read again (the next send starts
\* with Str_WriterInit, the next copy overwrites oh_buffer[0 .. oh_cnt-1]), so
\* the model empties them.
uMCP_DC_Output_Process(s) ==
  [ node   |-> [s EXCEPT !.oh_ready = FALSE, !.ol_ready = FALSE,
                          !.oh_buffer = << >>, !.ol_buffer = << >>],
    toHost |-> IF s.oh_ready THEN s.oh_buffer ELSE << >>,
    toLine |-> IF s.ol_ready THEN << s.ol_buffer >> ELSE << >> ]

\* the rest of a pass, after uMCP_DC_Input_Process and uMCP_DC_Output_Process
LoopTail(s, in, exp) ==
  Bind(uMCP_ITimers_Process(s, in, exp),
  LAMBDA a3 :
  Bind(IF a3.ip_ready THEN uMCP_OnIncomingPacket(a3, in) ELSE a3,
  LAMBDA a4 :
  IF (a4.state = uMCP_STATE_HALTED) /\ (a4.ih_Cnt > 0)
  THEN Bind(uMCP_STATE_Set(a4, uMCP_STATE_ISTART),
       LAMBDA a5 : uMCP_CtrlSend(a5, in, uMCP_PTYPE_STR, 0, 0, TRUE))
  ELSE uMCP_Protocol_Perform(a4, in)))

\* One pass of loop().  hostBytes is empty or holds the byte Serial.read()
\* returns; lineBytes holds the bytes read from the line up to and including
\* this pass (a pass reads one byte; the passes that read the earlier bytes
\* of a frame touch only the ip_ fields, which nothing reads before ip_ready,
\* so they are folded into the pass that reads the frame's last byte).
loop(s, in, hostBytes, lineBytes, exp) ==
  Bind(uMCP_DC_Input_Process([s EXCEPT !.rearmed = {}], hostBytes, lineBytes),
  LAMBDA a1 :
  Bind(uMCP_DC_Output_Process(a1),
  LAMBDA out :
  Bind(LoopTail(out.node, in, exp),
  LAMBDA a5 : [out EXCEPT !.node = [a5 EXCEPT !.rearmed = {}]])))

\* A pass followed by the uMCP_DC_Output_Process of the next pass: what a
\* pass leaves in ol_buffer and oh_buffer is written out at the start of the
\* next pass, before anything else touches the two buffers.
LoopAndWrite(s, in, hostBytes, lineBytes, exp) ==
  Bind(loop(s, in, hostBytes, lineBytes, exp),
  LAMBDA r :
  Bind(uMCP_DC_Output_Process(r.node),
  LAMBDA w :
  [ node |-> w.node, toHost |-> r.toHost \o w.toHost, toLine |-> r.toLine \o w.toLine ]))

(***************************************************************************)
(* State of the specifications.  node, chan, hostIn and hostOut describe   *)
(* two boards joined by a line: node[n] is the sketch's state on board n,  *)
(* chan[n] the frames on their way to n, hostIn[n] the bytes n's host has  *)
(* written so far and hostOut[n] the bytes n has written to its host.      *)
(* arg and res hold the input and the outcome of the specifications that   *)
(* exercise one function.                                                  *)
(***************************************************************************)
VARIABLES node, chan, hostIn, hostOut, arg, res

vars == << node, chan, hostIn, hostOut, arg, res >>

Nodes == {"A", "B"}

Peer(n) == IF n = "A" THEN "B" ELSE "A"

IdleBoards ==
  /\ node = [n \in Nodes |-> InitNode]
  /\ chan = [n \in Nodes |-> << >>]
  /\ hostIn = [n \in Nodes |-> << >>]
  /\ hostOut = [n \in Nodes |-> << >>]

(***************************************************************************)
(* SpecRange: the acceptance test of an incoming ack value, applied to     *)
(* counters A, N and a value v drawn from SampleBytes.                     *)
(***************************************************************************)
SampleBytes == {0, 1, 2, 5, 100, 128, 200, 203, 254, 255}

\* the specifications that exercise one function leave the boards out
NoBoards ==
  /\ node = << >>
  /\ chan = << >>
  /\ hostIn = << >>
  /\ hostOut = << >>

InitRange ==
  /\ NoBoards
  /\ arg \in [A : SampleBytes, N : SampleBytes, v : SampleBytes]
  /\ res = [done |-> FALSE]

RangeApply ==
  /\ ~res.done
  /\ res' = [done |-> TRUE,
             accepted |-> IsAcceptable([InitNode EXCEPT !.A = arg.A, !.N = arg.N], arg.v)]
  /\ UNCHANGED << node, chan, hostIn, hostOut, arg >>

NextRange == RangeApply

SpecRange == InitRange /\ [][NextRange]_vars

\* the circular distance from a to b
Dist(a, b) == (b + ByteMod - a) % ByteMod

\* C8: an incoming ack value v is accepted exactly when v = N or v lies
\* strictly inside the circular interval (A, N), that is
\* 0 < (v - A) mod 256 < (N - A) mod 256.
C8_AcceptedIffInWindow ==
  res.done =>
    (res.accepted <=>
       ((arg.v = arg.N)
        \/ ((0 < Dist(arg.A, arg.v)) /\ (Dist(arg.A, arg.v) < Dist(arg.A, arg.N)))))

(***************************************************************************)
(* SpecCrc: CRC8_Get over a byte range and over the same range with one    *)
(* bit flipped, and the checksum accumulated byte by byte the way the      *)
(* deframer does.  The ranges are every single byte and every sequence of  *)
(* 2 .. MaxCrcLen bytes of CrcBytes.                                       *)
(***************************************************************************)
MaxCrcLen == 3

CrcBytes == {0, 1, 128, UMCP_SIGN, 255}

CrcRanges ==
  {<< b >> : b \in Byte} \cup UNION {[1 .. k -> CrcBytes] : k \in 2 .. MaxCrcLen}

\* ip_ahchk = CRC8_Update(0xff, first byte), then
\* ip_ahchk = CRC8_Update(ip_ahchk, c) for every further byte
RECURSIVE Accumulate(_, _, _)
Accumulate(bytes, i, crc) ==
  IF i <= Len(bytes) THEN Accumulate(bytes, i + 1, CRC8_Update(crc, bytes[i])) ELSE crc

RECURSIVE Pow2(_)
Pow2(k) == IF k = 0 THEN 1 ELSE 2 * Pow2(k - 1)

FlipBit(bytes, p, bit) == [bytes EXCEPT ![p] = Xor(@, Pow2(bit))]

InitCrc ==
  /\ NoBoards
  /\ arg \in {[buf |-> b] : b \in CrcRanges}
  /\ res = [done |-> FALSE]

CrcApply ==
  /\ ~res.done
  /\ \E p \in 1 .. Len(arg.buf), bit \in 0 .. 7 :
       res' = [done |-> TRUE, p |-> p, bit |-> bit,
               crc |-> CRC8_Get(arg.buf, 0, Len(arg.buf)),
               flipped |-> CRC8_Get(FlipBit(arg.buf, p, bit), 0, Len(arg.buf)),
               acc |-> Accumulate(arg.buf, 1, 255)]
  /\ UNCHANGED << node, chan, hostIn, hostOut, arg >>

NextCrc == CrcApply

SpecCrc == InitCrc /\ [][NextCrc]_vars

\* C9: flipping any single bit of a byte range changes CRC8_Get over the
\* range, and the checksum accumulated with CRC8_Update from 0xFF over the
\* bytes equals CRC8_Get over them.
C9_SingleBitDetected ==
  res.done => ((res.flipped # res.crc) /\ (res.acc = res.crc))

\* a range of MaxCrcLen bytes with the top bit of its last byte flipped
C9_Witness ==
  res.done /\ (Len(arg.buf) = MaxCrcLen) /\ (res.p = MaxCrcLen) /\ (res.bit = 7)
  /\ (res.flipped # res.crc)

(***************************************************************************)
(* SpecDeframe: one board's deframer fed a byte stream, a byte per step.   *)
(* The stream is a frame built by the framer (uMCP_CtrlSend or             *)
(* uMCP_DataSend), alone or preceded by a frame whose header checksum byte *)
(* was replaced by a wrong value.  res.events logs the ready events: the   *)
(* fields uMCP_OnIncomingPacket copies when it sees ip_ready, and the      *)
(* number of bytes fed so far.                                             *)
(***************************************************************************)
NoInput == [nagle |-> FALSE, wild |-> 0]

CtrlTypes == {uMCP_PTYPE_STR, uMCP_PTYPE_STA, uMCP_PTYPE_REP, uMCP_PTYPE_ACK}

DataTypes == {uMCP_PTYPE_DTA, uMCP_PTYPE_DTE}

\* tx/rx counter pairs, with the signature byte and the wrap among them
CounterPairs == {<< 0, 0 >>, << 1, 255 >>, << UMCP_SIGN, UMCP_SIGN >>, << 255, 1 >>}

\* payloads of every length 1 .. UMCP_MAX_DATA_SIZE: all signature bytes,
\* the bytes 1, 2, 3, ... and zeros closed by a signature byte
Payloads ==
  UNION {{[i \in 1 .. len |-> UMCP_SIGN],
          [i \in 1 .. len |-> i],
          [i \in 1 .. len |-> IF i = len THEN UMCP_SIGN ELSE 0]} :
         len \in 1 .. UMCP_MAX_DATA_SIZE}

\* where in ih_ring the payload of a data frame starts: at the start of the
\* ring, or at its last cell so that the copy wraps
RingStarts == {0, CR_RING_SIZE - 1}

FrameDescs ==
  {[ptype |-> t, tcnt |-> c[1], rcnt |-> c[2], payload |-> << >>, rPos |-> 0] :
     t \in CtrlTypes, c \in CounterPairs}
  \cup
  {[ptype |-> t, tcnt |-> c[1], rcnt |-> c[2], payload |-> pl, rPos |-> r] :
     t \in DataTypes, c \in CounterPairs, pl \in Payloads, r \in RingStarts}

\* the board's ring holding payload from rPos on
RingWith(payload, rPos) ==
  [InitNode EXCEPT !.ih_ring =
     [i \in DOMAIN @ |->
        IF ((i + CR_RING_SIZE - rPos) % CR_RING_SIZE) < Len(payload)
        THEN payload[((i + CR_RING_SIZE - rPos) % CR_RING_SIZE) + 1]
        ELSE 0]]

\* the bytes the framer leaves in ol_buffer for the frame d describes
Framed(d) ==
  IF d.ptype \in DataTypes
  THEN uMCP_DataSend(RingWith(d.payload, d.rPos), NoInput, d.ptype = uMCP_PTYPE_DTE,
                     d.tcnt, d.rcnt, d.rPos, Len(d.payload), TRUE).ol_buffer
  ELSE uMCP_CtrlSend(InitNode, NoInput, d.ptype, d.tcnt, d.rcnt, TRUE).ol_buffer

\* the position of the header checksum byte in a frame of type t
HchkPos(t) ==
  IF t \in {uMCP_PTYPE_STR, uMCP_PTYPE_STA} THEN 5
  ELSE IF t = uMCP_PTYPE_REP THEN 6 ELSE 7

\* the frame of d with its header checksum byte replaced by a wrong value
Corrupted(d, delta) ==
  [Framed(d) EXCEPT ![HchkPos(d.ptype)] = (@ + delta) % ByteMod]

\* the frames that get a wrong header checksum, and the frames that follow
BadDescs ==
  {[ptype |-> t, tcnt |-> 1, rcnt |-> 0,
    payload |-> IF t \in DataTypes THEN << 65, 66 >> ELSE << >>, rPos |-> 0] :
     t \in CtrlTypes \cup DataTypes}

NextDescs ==
  {[ptype |-> uMCP_PTYPE_ACK, tcnt |-> 1, rcnt |-> 1, payload |-> << >>, rPos |-> 0],
   [ptype |-> uMCP_PTYPE_STR, tcnt |-> 0, rcnt |-> 0, payload |-> << >>, rPos |-> 0],
   [ptype |-> uMCP_PTYPE_DTE, tcnt |-> 1, rcnt |-> 0, payload |-> << 67 >>, rPos |-> 0]}

ChecksumDeltas == {1, 128}

InitDeframe ==
  /\ node = [n \in {"A"} |-> InitNode]
  /\ chan = << >>
  /\ hostIn = << >>
  /\ hostOut = << >>
  /\ \/ \E d \in FrameDescs :
          arg = [bad |-> << >>, hchk |-> 0, good |-> d, stream |-> Framed(d)]
     \/ \E b \in BadDescs, delta \in ChecksumDeltas, d \in NextDescs :
          arg = [bad |-> Corrupted(b, delta), hchk |-> HchkPos(b.ptype), good |-> d,
                 stream |-> Corrupted(b, delta) \o Framed(d)]
  /\ res = [fed |-> 0, events |-> << >>]

\* what uMCP_OnIncomingPacket reads of the deframer when ip_ready is set
ReadyEvent(s, at) ==
  [ptype |-> s.ip_type, sid |-> s.ip_sid, tid |-> s.ip_tid,
   tcnt |-> s.ip_tcnt, rcnt |-> s.ip_rcnt, dcnt |-> s.ip_dcnt,
   data |-> [i \in 1 .. s.ip_dcnt |->
               IF i <= UMCP_MAX_DATA_SIZE THEN s.ip_datablock[i - 1] ELSE 0],
   at |-> at]

DeframeByte ==
  /\ res.fed < Len(arg.stream)
  /\ \E s \in {uMCP_OnNewByte(node["A"], CFG_LINE_DC_ID, arg.stream[res.fed + 1])} :
       /\ node' = [node EXCEPT !["A"] = [s EXCEPT !.ip_ready = FALSE]]
       /\ res' = [fed |-> res.fed + 1,
                  events |-> IF s.ip_ready
                             THEN Append(res.events, ReadyEvent(s, res.fed + 1))
                             ELSE res.events]
  /\ UNCHANGED << chan, hostIn, hostOut, arg >>

NextDeframe == DeframeByte

SpecDeframe == InitDeframe /\ [][NextDeframe]_vars

\* the event the frame of d is to raise: the fields its type carries
EventMatches(e, d) ==
  /\ e.ptype = d.ptype
  /\ e.sid = CFG_DEFAULT_SID
  /\ e.tid = CFG_DEFAULT_TID
  /\ (d.ptype \in {uMCP_PTYPE_REP, uMCP_PTYPE_ACK} \cup DataTypes) => (e.tcnt = d.tcnt)
  /\ (d.ptype \in {uMCP_PTYPE_ACK} \cup DataTypes) => (e.rcnt = d.rcnt)
  /\ (d.ptype \in DataTypes) => ((e.dcnt = Len(d.payload)) /\ (e.data = d.payload))

\* C7: a frame built by the framer and fed byte by byte to an idle deframer
\* raises no ready event before its last byte and exactly one at its last
\* byte, with the frame's type, ids, counters, data count and data bytes.
C7_RoundTrip ==
  (arg.bad = << >>) =>
    /\ (res.fed < Len(arg.stream)) => (res.events = << >>)
    /\ (res.fed = Len(arg.stream)) =>
         /\ Len(res.events) = 1
         /\ res.events[1].at = Len(arg.stream)
         /\ EventMatches(res.events[1], arg.good)

\* a DTE frame with a full payload of signature bytes, read from a ring
\* position that wraps, has been deframed
C7_Witness ==
  /\ arg.bad = << >>
  /\ arg.good.ptype = uMCP_PTYPE_DTE
  /\ arg.good.payload = [i \in 1 .. UMCP_MAX_DATA_SIZE |-> UMCP_SIGN]
  /\ arg.good.rPos = CR_RING_SIZE - 1
  /\ res.fed = Len(arg.stream)
  /\ Len(res.events) = 1

\* C6: a frame of any type whose header checksum byte is wrong raises no
\* ready event and ends the frame in progress at that byte, and the valid
\* frame that follows it is deframed as if it had come alone: one ready
\* event, at its last byte, with its fields.
C6_BadHeaderDiscarded ==
  (arg.bad # << >>) =>
    /\ \A i \in 1 .. Len(res.events) : res.events[i].at > Len(arg.bad)
    /\ (res.fed = arg.hchk) => ~node["A"].ip_start
    /\ (res.fed = Len(arg.stream)) =>
         /\ Len(res.events) = 1
         /\ res.events[1].at = Len(arg.stream)
         /\ EventMatches(res.events[1], arg.good)

(***************************************************************************)
(* SpecDataCrc: the deframer fed a DTA or DTE frame built by the framer    *)
(* whose last byte, the data checksum, was replaced by a wrong value.      *)
(***************************************************************************)
DataDescs == {d \in FrameDescs : (d.ptype \in DataTypes) /\ (d.rPos = 0)}

\* the frame of d with its data checksum byte replaced by a wrong value
DataCorrupted(d, delta) ==
  Bind(Framed(d), LAMBDA f : [f EXCEPT ![Len(f)] = (@ + delta) % ByteMod])

InitDataCrc ==
  /\ node = [n \in {"A"} |-> InitNode]
  /\ chan = << >>
  /\ hostIn = << >>
  /\ hostOut = << >>
  /\ \E d \in DataDescs, delta \in ChecksumDeltas :
       arg = [good |-> d, delta |-> delta, stream |-> DataCorrupted(d, delta)]
  /\ res = [fed |-> 0, events |-> << >>]

SpecDataCrc == InitDataCrc /\ [][NextDeframe]_vars

\* C11: a DTA/DTE frame with a valid header and a wrong data checksum byte
\* raises exactly one ready event, at its last byte, of type ACK with the
\* frame's tx and rx counters, and never a ready event of a data type.
C11_DowngradedToAck ==
  /\ \A i \in 1 .. Len(res.events) : res.events[i].ptype \notin DataTypes
  /\ (res.fed = Len(arg.stream)) =>
       /\ Len(res.events) = 1
       /\ res.events[1].at = Len(arg.stream)
       /\ res.events[1].ptype = uMCP_PTYPE_ACK
       /\ res.events[1].tcnt = arg.good.tcnt
       /\ res.events[1].rcnt = arg.good.rcnt

(***************************************************************************)
(* SpecBadType: the deframer fed a well-formed frame (signature, type,     *)
(* ids, counters, header checksum, data count, data, data checksum, every  *)
(* checksum right) whose type byte is none of the six type codes.  The     *)
(* type bytes lie in 0 .. 63, the values the enumeration uMCP_PacketType   *)
(* can hold.                                                               *)
(***************************************************************************)
PacketTypes == CtrlTypes \cup DataTypes

UnknownTypes == {0, 1, 16, 32, 35, 48, uMCP_PTYPE_INVALID, 51, 63}

TypePayloads == {<< 1 >>, << 65, 66 >>, << UMCP_SIGN, 0, UMCP_SIGN >>}

InitBadType ==
  /\ node = [n \in {"A"} |-> InitNode]
  /\ chan = << >>
  /\ hostIn = << >>
  /\ hostOut = << >>
  /\ \E t \in UnknownTypes, c \in CounterPairs, pl \in TypePayloads :
       arg = [ptype |-> t, stream |-> DataFrame(t, c[1], c[2], pl)]
  /\ res = [fed |-> 0, events |-> << >>]

SpecBadType == InitBadType /\ [][NextDeframe]_vars

\* C12: a type byte that is none of the six type codes ends the frame in
\* progress at that byte (the second of the frame), and no ready event is
\* raised with a type other than the six.
C12_UnknownTypeRejected ==
  /\ (res.fed = 2) => ~node["A"].ip_start
  /\ \A i \in 1 .. Len(res.events) : res.events[i].ptype \in PacketTypes

(***************************************************************************)
(* One board and its environment: the host writes single bytes and bursts  *)
(* of CFG_DATABLOCK_SIZE bytes, the line delivers frames, the timers       *)
(* expire and the Nagle delay runs out.  arg counts what the host has      *)
(* written; res holds what the last step wrote to the line and to the      *)
(* host.  SpecRing and SpecWindow differ in the frames the line delivers   *)
(* and in how much the host writes.                                        *)
(***************************************************************************)
\* the k-th byte the host writes (k = 1, 2, ...): never zero
HostByteAt(k) == (k % 255) + 1

\* the indexes of sentBlocksSize / sentBlocksRPos a pass may load
WindowIdx(s) == {(s.A + 1) % ByteMod}

\* the inputs a pass can read from outside: the Nagle test matters only
\* with bytes in the ring, the out-of-array byte only with an index outside
\* the arrays
Inputs(s, hostBytes) ==
  {[nagle |-> ng, wild |-> w] :
     ng \in (IF (s.ih_Cnt > 0) \/ (hostBytes # << >>) THEN BOOLEAN ELSE {FALSE}),
     w \in (IF \E i \in WindowIdx(s) : ~WinIdx(i) THEN WildBytes ELSE {0})}

\* consecutive passes of loop(), each reading one host byte, bytes[lo .. hi]
\* in order, with no byte from the line, no timer expiring and the Nagle
\* delay running (the range is halved to keep the evaluation shallow)
RECURSIVE HostBurst(_, _, _, _)
HostBurst(r, bytes, lo, hi) ==
  IF lo > hi THEN r
  ELSE IF lo = hi
  THEN Bind(LoopAndWrite(r.node, NoInput, << bytes[lo] >>, << >>, {}),
       LAMBDA q :
       [node |-> q.node, toHost |-> r.toHost \o q.toHost, toLine |-> r.toLine \o q.toLine])
  ELSE Bind(HostBurst(r, bytes, lo, (lo + hi) \div 2),
       LAMBDA h : HostBurst(h, bytes, ((lo + hi) \div 2) + 1, hi))

InitOneBoard ==
  /\ node = [n \in {"A"} |-> InitNode]
  /\ chan = << >>
  /\ hostIn = << >>
  /\ hostOut = << >>
  /\ arg = [pushed |-> 0, singles |-> 0, bursts |-> 0]
  /\ res = [toLine |-> << >>, toHost |-> << >>]

\* Between two frames (ip_start and ip_ready false) the deframer's other
\* fields are dead: the next signature byte sets ip_pos, ip_ahchk, ip_type
\* and ip_dcnt anew, and uMCP_OnIncomingPacket uses ip_tcnt, ip_rcnt, ip_dcnt
\* and ip_datablock only for a frame whose own bytes were stored in them.
\* The specifications that deliver whole frames keep the dead fields at
\* their initial values.
Forget(s) ==
  IF s.ip_start \/ s.ip_ready THEN s
  ELSE [s EXCEPT !.ip_datablock = InitNode.ip_datablock, !.ip_pos = InitNode.ip_pos,
                 !.ip_sid = InitNode.ip_sid, !.ip_tid = InitNode.ip_tid,
                 !.ip_type = InitNode.ip_type, !.ip_tcnt = InitNode.ip_tcnt,
                 !.ip_rcnt = InitNode.ip_rcnt, !.ip_ahchk = InitNode.ip_ahchk,
                 !.ip_dcnt = InitNode.ip_dcnt]

NodeDone(r) ==
  /\ node' = [node EXCEPT !["A"] = Forget(r.node)]
  /\ res' = [toLine |-> r.toLine, toHost |-> r.toHost]
  /\ UNCHANGED << chan, hostIn, hostOut >>

\* a pass that reads one byte from the host
NodeHostByte(max) ==
  /\ arg.singles < max
  /\ \E in \in Inputs(node["A"], << 1 >>) :
       \E r \in {LoopAndWrite(node["A"], in, << HostByteAt(arg.pushed + 1) >>, << >>, {})} :
         NodeDone(r)
  /\ arg' = [arg EXCEPT !.pushed = @ + 1, !.singles = @ + 1]

\* CFG_DATABLOCK_SIZE passes that read one byte from the host each
NodeHostBurst(max) ==
  /\ arg.bursts < max
  /\ \E r \in {HostBurst([node |-> node["A"], toHost |-> << >>, toLine |-> << >>],
                         [i \in 1 .. CFG_DATABLOCK_SIZE |-> HostByteAt(arg.pushed + i)],
                         1, CFG_DATABLOCK_SIZE)} :
       NodeDone(r)
  /\ arg' = [arg EXCEPT !.pushed = @ + CFG_DATABLOCK_SIZE, !.bursts = @ + 1]

\* a pass that reads the last byte of a frame from the line
NodeReceive(frames) ==
  /\ \E f \in frames, in \in Inputs(node["A"], << >>) :
       \E r \in {LoopAndWrite(node["A"], in, << >>, f, {})} : NodeDone(r)
  /\ UNCHANGED arg

\* a pass in which the timer next to expire has expired
NodeTimer ==
  /\ NextToExpire(node["A"]) # {}
  /\ \E in \in Inputs(node["A"], << >>) :
       \E r \in {LoopAndWrite(node["A"], in, << >>, << >>, NextToExpire(node["A"]))} :
         NodeDone(r)
  /\ UNCHANGED arg

\* a pass with no input after the Nagle delay has run out
NodeNagle ==
  /\ node["A"].ih_Cnt > 0
  /\ \E in \in {i \in Inputs(node["A"], << >>) : i.nagle} :
       \E r \in {LoopAndWrite(node["A"], in, << >>, << >>, {})} : NodeDone(r)
  /\ UNCHANGED arg

(***************************************************************************)
(* SpecRing: the host fills the ring, the peer answers the handshake and   *)
(* acknowledges the first block.                                           *)
(***************************************************************************)
MaxRingSingles == 1
MaxRingBursts == 8

RingFrames == {CtrlFrame(uMCP_PTYPE_STA, 0, 0)}

NextRing ==
  \/ NodeHostByte(MaxRingSingles)
  \/ NodeHostBurst(MaxRingBursts)
  \/ NodeReceive(RingFrames)
  \/ NodeTimer
  \/ NodeNagle

SpecRing == InitOneBoard /\ [][NextRing]_vars

(***************************************************************************)
(* SpecWindow: the host writes a few blocks, the peer answers the          *)
(* handshake, acknowledges and sends data that carries acknowledgements.   *)
(***************************************************************************)
MaxWinSingles == 2
MaxWinBursts == 2

WinCounters == {0, 1, 2}

WindowFrames ==
  {CtrlFrame(uMCP_PTYPE_STA, 0, 0)}
  \cup {CtrlFrame(uMCP_PTYPE_ACK, 0, r) : r \in WinCounters}
  \cup {DataFrame(uMCP_PTYPE_DTE, 1, r, << 90 >>) : r \in WinCounters}

NextWindow ==
  \/ NodeHostByte(MaxWinSingles)
  \/ NodeHostBurst(MaxWinBursts)
  \/ NodeReceive(WindowFrames)
  \/ NodeTimer
  \/ NodeNagle

SpecWindow == InitOneBoard /\ [][NextWindow]_vars

Occupied(s) == {i \in DOMAIN s.sentBlocksSize : s.sentBlocksSize[i] # 0}

\* the circular range [A, N)
SentRange(s) == {(s.A + k) % ByteMod : k \in 0 .. (Dist(s.A, s.N) - 1)}

\* C5: the number of window slots with a non-zero recorded length equals
\* sentBlocksCnt, and the occupied slots are exactly those of [A, N).
C5_WindowInvariant ==
  /\ Cardinality(Occupied(node["A"])) = node["A"].sentBlocksCnt
  /\ Occupied(node["A"]) = SentRange(node["A"])

\* C10: the ring's count never exceeds CR_RING_SIZE and equals
\* (write position - read position) mod CR_RING_SIZE, a count of
\* CR_RING_SIZE standing for the full ring.
C10_RingCount ==
  /\ node["A"].ih_Cnt <= CR_RING_SIZE
  /\ (node["A"].ih_Cnt % CR_RING_SIZE)
       = ((node["A"].ih_wPos + CR_RING_SIZE - node["A"].ih_rPos) % CR_RING_SIZE)

\* the condition under which uMCP_Protocol_Perform may send
HoldsLine(s) ==
  /\ s.state = uMCP_STATE_RUNNING
  /\ s.select
  /\ ~s.iTimer_State[uMCP_Timer_TX]
  /\ ~s.iTimer_State[uMCP_Timer_TMO]

\* C13: uMCP_Protocol_Perform, called in any state the board reaches and
\* with the Nagle delay run out or not, changes the state (and so builds a
\* frame) only if the board is RUNNING, holds SELECT and neither the TX nor
\* the TIMEOUT timer is active; otherwise it returns the state as it was.
C13_SelectArbitration ==
  \A in \in Inputs(node["A"], << 1 >>) :
    (uMCP_Protocol_Perform(node["A"], in) # node["A"]) => HoldsLine(node["A"])

\* RUNNING with a full block waiting in the ring and both timers off, but
\* without SELECT: uMCP_Protocol_Perform leaves the block unsent
C13_Witness ==
  /\ node["A"].state = uMCP_STATE_RUNNING
  /\ ~node["A"].select
  /\ ~node["A"].iTimer_State[uMCP_Timer_TX]
  /\ ~node["A"].iTimer_State[uMCP_Timer_TMO]
  /\ node["A"].ih_Cnt >= CFG_DATABLOCK_SIZE
  /\ uMCP_Protocol_Perform(node["A"], NoInput) = node["A"]

\* C15: the number of blocks sent and not acknowledged never exceeds
\* UMCP_MAX_SENT_BLOCKS, whatever the host writes and whatever the peer
\* leaves unanswered.
C15_BoundedInFlight == node["A"].sentBlocksCnt <= UMCP_MAX_SENT_BLOCKS

\* C16: no store into sentBlocksSize or sentBlocksRPos uses an index
\* outside 0 .. UMCP_MAX_SENT_BLOCKS - 1.
C16_WindowIndexInRange == ~node["A"].oob

(***************************************************************************)
(* SpecWrap: one board as the receiver of a long transfer.  The peer opens *)
(* the session (STR, then ACK) and sends data frames: the block that       *)
(* follows the last one the board accepted (tx counter R + 1 mod 256), as  *)
(* DTA or DTE, and frames with the tx counters of WrapProbes.  The board   *)
(* has nothing to send, so every frame carries rx counter 0.  arg holds    *)
(* what the last pass read: the tx counter and data of a data frame (tcnt  *)
(* is NoFrame otherwise) and the board's R and sack before the pass.       *)
(***************************************************************************)
NoFrame == 0 - 1

WrapProbes == {0, 5}

\* the data byte of the block with tx counter t
WrapData(t) == << (t % 255) + 1 >>

WrapFrames(s) ==
  IF s.state # uMCP_STATE_RUNNING
  THEN {[bytes |-> CtrlFrame(t, 0, 0), tcnt |-> NoFrame, data |-> << >>] :
          t \in {uMCP_PTYPE_STR, uMCP_PTYPE_ACK}}
  ELSE {[bytes |-> DataFrame(t, c, 0, WrapData(c)), tcnt |-> c, data |-> WrapData(c)] :
          t \in DataTypes, c \in {(s.R + 1) % ByteMod} \cup WrapProbes}

InitWrap ==
  /\ node = [n \in {"A"} |-> InitNode]
  /\ chan = << >>
  /\ hostIn = << >>
  /\ hostOut = << >>
  /\ arg = [tcnt |-> NoFrame, data |-> << >>, R |-> 0, sack |-> FALSE]
  /\ res = [toLine |-> << >>, toHost |-> << >>]

\* a pass that reads the last byte of a frame from the peer
WrapReceive ==
  \E f \in WrapFrames(node["A"]), in \in Inputs(node["A"], << >>) :
    \E r \in {LoopAndWrite(node["A"], in, << >>, f.bytes, {})} :
      /\ NodeDone(r)
      /\ arg' = [tcnt |-> f.tcnt, data |-> f.data, R |-> node["A"].R, sack |-> node["A"].sack]

\* a pass in which the timer next to expire has expired
WrapTimer ==
  /\ NextToExpire(node["A"]) # {}
  /\ \E in \in Inputs(node["A"], << >>) :
       \E r \in {LoopAndWrite(node["A"], in, << >>, << >>, NextToExpire(node["A"]))} :
         NodeDone(r)
  /\ arg' = [tcnt |-> NoFrame, data |-> << >>, R |-> node["A"].R, sack |-> node["A"].sack]

NextWrap == WrapReceive \/ WrapTimer

SpecWrap == InitWrap /\ [][NextWrap]_vars

\* C14: the receive counter wraps from 255 to 0.  A data frame whose tx
\* counter is R + 1 mod 256 is accepted as the next block (R becomes the
\* tx counter and the frame's data is written to the host), for R = 255 as
\* for every other R; and with R = 255 a frame with tx counter 5 is not
\* taken for a block already received (no acknowledgement is owed or sent
\* for it).
C14_CountersWrap ==
  /\ (arg.tcnt = (arg.R + 1) % ByteMod) =>
       ((node["A"].R = arg.tcnt) /\ (res.toHost = arg.data))
  /\ ((arg.R = 255) /\ (arg.tcnt = 5) /\ ~arg.sack) =>
       ((~node["A"].sack) /\ (res.toLine = << >>))

(***************************************************************************)
(* SpecRetry: one board whose peer answers or not.  The host writes at     *)
(* most MaxRetrySingles bytes; the line delivers any frame of RetryFrames  *)
(* at any time, or none.  arg.retries counts, up to MaxRetries, the        *)
(* TIMEOUT expiries of the board's present stay in ISTART or ASTART.  The  *)
(* timers run out: loop() runs for ever and millis() advances.             *)
(***************************************************************************)
MaxRetrySingles == 1

MaxRetries == 3

RetryFrames ==
  {CtrlFrame(uMCP_PTYPE_STR, 0, 0), CtrlFrame(uMCP_PTYPE_STA, 0, 0),
   CtrlFrame(uMCP_PTYPE_ACK, 0, 0), CtrlFrame(uMCP_PTYPE_ACK, 0, 1),
   CtrlFrame(uMCP_PTYPE_REP, 0, 0), DataFrame(uMCP_PTYPE_DTE, 1, 0, << 90 >>)}

Starting(s) == s.state \in {uMCP_STATE_ISTART, uMCP_STATE_ASTART}

InitRetry ==
  /\ node = [n \in {"A"} |-> InitNode]
  /\ chan = << >>
  /\ hostIn = << >>
  /\ hostOut = << >>
  /\ arg = [pushed |-> 0, singles |-> 0, bursts |-> 0, retries |-> 0]
  /\ res = [toLine |-> << >>, toHost |-> << >>]

\* a pass that reads the last byte of a frame from the line
RetryReceive ==
  /\ \E f \in RetryFrames, in \in Inputs(node["A"], << >>) :
       \E r \in {LoopAndWrite(node["A"], in, << >>, f, {})} :
         /\ NodeDone(r)
         /\ arg' = [arg EXCEPT !.retries = IF r.node.state = node["A"].state THEN @ ELSE 0]

\* a pass in which the timer next to expire has expired
RetryTimer ==
  /\ NextToExpire(node["A"]) # {}
  /\ \E in \in Inputs(node["A"], << >>) :
       \E r \in {LoopAndWrite(node["A"], in, << >>, << >>, NextToExpire(node["A"]))} :
         NodeDone(r)
  /\ arg' = [arg EXCEPT !.retries =
               IF Starting(node["A"]) /\ (NextToExpire(node["A"]) = {uMCP_Timer_TMO})
                  /\ (@ < MaxRetries)
               THEN @ + 1 ELSE @]

NextRetry ==
  \/ NodeHostByte(MaxRetrySingles)
  \/ RetryReceive
  \/ RetryTimer
  \/ NodeNagle

SpecRetry == InitRetry /\ [][NextRetry]_vars /\ WF_vars(RetryTimer)

\* the TIMEOUT timer runs, or starts when the transmission under way ends
TimeoutArmed(s) ==
  \/ s.iTimer_State[uMCP_Timer_TMO]
  \/ (s.iTimer_State[uMCP_Timer_TX] /\ s.isTimerPendingOnTxFinish)

\* the last pass wrote a frame of type t to the line
Wrote(t) == \E i \in 1 .. Len(res.toLine) : res.toLine[i] = CtrlFrame(t, 0, 0)

\* C18: in ISTART and in ASTART the TIMEOUT timer is running or about to
\* be started; a TIMEOUT expiry in ISTART writes STR and one in ASTART
\* writes STA; and a board that stays in ISTART (ASTART) writes STR (STA)
\* again and again, without end.
C18_HandshakeRetransmits ==
  /\ [](Starting(node["A"]) => TimeoutArmed(node["A"]))
  /\ [][(RetryTimer /\ (NextToExpire(node["A"]) = {uMCP_Timer_TMO}))
         => /\ (node["A"].state = uMCP_STATE_ISTART) => Wrote(uMCP_PTYPE_STR)'
            /\ (node["A"].state = uMCP_STATE_ASTART) => Wrote(uMCP_PTYPE_STA)']_vars
  /\ []<>((node["A"].state # uMCP_STATE_ISTART) \/ Wrote(uMCP_PTYPE_STR))
  /\ []<>((node["A"].state # uMCP_STATE_ASTART) \/ Wrote(uMCP_PTYPE_STA))

\* the board is in ASTART, MaxRetries TIMEOUT intervals have run out
\* since it entered, and the last pass wrote STA once more
C18_Witness ==
  /\ node["A"].state = uMCP_STATE_ASTART
  /\ arg.retries = MaxRetries
  /\ Wrote(uMCP_PTYPE_STA)

(***************************************************************************)
(* SpecOrder: one board and its two serial ports, pass by pass.  Here      *)
(* hostIn["A"] and chan["A"] hold the bytes waiting in the receive         *)
(* buffers of Serial and of the line port: the host writes up to           *)
(* MaxOrderHost bytes, the line delivers the bytes of a frame of           *)
(* OrderFrames, and a pass of loop() reads at most one byte from each      *)
(* port.  arg holds the board before the last pass and what the pass read  *)
(* from outside.                                                           *)
(***************************************************************************)
MaxOrderHost == 2

OrderFrames ==
  {CtrlFrame(uMCP_PTYPE_STR, 0, 0), CtrlFrame(uMCP_PTYPE_STA, 0, 0),
   CtrlFrame(uMCP_PTYPE_ACK, 0, 0)}

\* what Serial.available() / Serial.read() give a pass: the first waiting byte
FirstByte(q) == IF q = << >> THEN << >> ELSE << Head(q) >>

RestBytes(q) == IF q = << >> THEN << >> ELSE Tail(q)

InitOrder ==
  /\ node = [n \in {"A"} |-> InitNode]
  /\ chan = [n \in {"A"} |-> << >>]
  /\ hostIn = [n \in {"A"} |-> << >>]
  /\ hostOut = << >>
  /\ arg = [op |-> "setup", pushed |-> 0, s |-> InitNode, in |-> NoInput,
            hostBytes |-> << >>, lineBytes |-> << >>, exp |-> {}]
  /\ res = [toLine |-> << >>, toHost |-> << >>]

\* the host writes a byte to the board's Serial port
OrderHostWrites ==
  /\ arg.pushed < MaxOrderHost
  /\ hostIn' = [hostIn EXCEPT !["A"] = Append(@, HostByteAt(arg.pushed + 1))]
  /\ arg' = [arg EXCEPT !.op = "host", !.pushed = @ + 1]
  /\ UNCHANGED << node, chan, hostOut, res >>

\* the bytes of a frame reach the line port
OrderLineArrives ==
  /\ chan["A"] = << >>
  /\ \E f \in OrderFrames : chan' = [chan EXCEPT !["A"] = f]
  /\ arg' = [arg EXCEPT !.op = "line"]
  /\ UNCHANGED << node, hostIn, hostOut, res >>

\* one pass of loop(); no timer, or the timer next to expire, has run out
OrderPass ==
  \E exp \in {{}, NextToExpire(node["A"])},
     in \in Inputs(node["A"], FirstByte(hostIn["A"])) :
    \E r \in {loop(node["A"], in, FirstByte(hostIn["A"]), FirstByte(chan["A"]), exp)} :
      /\ node' = [node EXCEPT !["A"] = r.node]
      /\ hostIn' = [hostIn EXCEPT !["A"] = RestBytes(@)]
      /\ chan' = [chan EXCEPT !["A"] = RestBytes(@)]
      /\ res' = [toLine |-> r.toLine, toHost |-> r.toHost]
      /\ arg' = [arg EXCEPT !.op = "pass", !.s = node["A"], !.in = in,
                            !.hostBytes = FirstByte(hostIn["A"]),
                            !.lineBytes = FirstByte(chan["A"]), !.exp = exp]
      /\ UNCHANGED hostOut

NextOrder == OrderHostWrites \/ OrderLineArrives \/ OrderPass

SpecOrder == InitOrder /\ [][NextOrder]_vars

\* a pass that hands a completed frame to the state machine before it
\* evaluates the timers
LoopFrameFirst(s, in, hostBytes, lineBytes, exp) ==
  Bind(uMCP_DC_Input_Process([s EXCEPT !.rearmed = {}], hostBytes, lineBytes),
  LAMBDA a1 :
  Bind(uMCP_DC_Output_Process(a1),
  LAMBDA out :
  Bind(IF out.node.ip_ready THEN uMCP_OnIncomingPacket(out.node, in) ELSE out.node,
  LAMBDA a3 :
  Bind(uMCP_ITimers_Process(a3, in, exp),
  LAMBDA a4 :
  Bind(IF (a4.state = uMCP_STATE_HALTED) /\ (a4.ih_Cnt > 0)
       THEN Bind(uMCP_STATE_Set(a4, uMCP_STATE_ISTART),
            LAMBDA a5 : uMCP_CtrlSend(a5, in, uMCP_PTYPE_STR, 0, 0, TRUE))
       ELSE uMCP_Protocol_Perform(a4, in),
  LAMBDA a6 : [a6 EXCEPT !.rearmed = {}])))))

\* C19: a pass of loop() leaves no byte waiting on the host port or on the
\* line port, and it leaves the board as a pass does that handles the
\* frame completed in it before the timers that expire in it.
C19_LoopOrdering ==
  (arg.op = "pass") =>
    /\ hostIn["A"] = << >>
    /\ chan["A"] = << >>
    /\ node["A"] = LoopFrameFirst(arg.s, arg.in, arg.hostBytes, arg.lineBytes, arg.exp)

(***************************************************************************)
(* Example 1: the sketch that configures a modem in command mode and then  *)
(* sends the remote requests.  A sentence is held by the fields the code   *)
(* reads from it or writes to it: its identifier (the character after      *)
(* $PUWV), and for an ACK the identifier it answers and the error code,    *)
(* for a remote request the request code.  timeSet and rtimeSet tell that  *)
(* uWAVE_time and uWAVE_rtime were set to millis() in the current pass.    *)
(***************************************************************************)
IC_D2H_ACK == "0"
IC_H2D_SETTINGS_WRITE == "1"
IC_H2D_RC_REQUEST == "2"
IC_D2H_RC_RESPONSE == "3"
IC_D2H_RC_TIMEOUT == "4"
IC_D2H_RC_ASYNC_IN == "5"
IC_H2D_AMB_DTA_CFG == "6"
IC_D2H_AMB_DTA == "7"
IC_H2D_DINFO_GET == "?"
IC_D2H_DINFO == "!"
IC_D2H_UNKNOWN == "-"

LOC_ERR_NO_ERROR == 0
LOC_ERR_TRANSMITTER_BUSY == 3
LOC_ERR_SVOLTAGE_TOO_HIGH == 14
LOC_ERR_UNKNOWN == LOC_ERR_SVOLTAGE_TOO_HIGH + 1

RC_PING == 0
RC_USR_CMD_008 == 15
RC_INVALID == RC_USR_CMD_008 + 1

InitExample_1 ==
  [ uWAVE_is_cmd_mode |-> TRUE,
    uWAVE_is_devInfo_updated |-> FALSE,
    uWAVE_settings_updated |-> FALSE,
    uWAVE_amb_settings_updated |-> FALSE,
    uWAVE_is_busy |-> FALSE,
    uWAVE_waiting_for_remote |-> FALSE,
    uWAVE_out_packet |-> [id |-> IC_D2H_UNKNOWN, rcCmdID |-> RC_INVALID],
    uWAVE_out_packet_ready |-> FALSE,
    requestID |-> RC_PING,
    timeSet |-> TRUE, rtimeSet |-> FALSE ]

\* an uWAVE_ACK_Parse that takes every ACK for a confirmation
uWAVE_ACK_ParseAnyCode(s, sntID, errCode) ==
  Bind([s EXCEPT !.uWAVE_is_busy = FALSE],
  LAMBDA s1 :
    IF sntID = IC_H2D_RC_REQUEST
    THEN [s1 EXCEPT !.uWAVE_waiting_for_remote = TRUE, !.rtimeSet = TRUE]
    ELSE IF sntID = IC_H2D_SETTINGS_WRITE
    THEN [s1 EXCEPT !.uWAVE_settings_updated = TRUE]
    ELSE IF sntID = IC_H2D_AMB_DTA_CFG
    THEN [s1 EXCEPT !.uWAVE_amb_settings_updated = TRUE]
    ELSE s1)

uWAVE_ACK_Parse(s, sntID, errCode) ==
  Bind([s EXCEPT !.uWAVE_is_busy = FALSE],
  LAMBDA s1 :
    IF errCode = LOC_ERR_NO_ERROR
    THEN IF sntID = IC_H2D_RC_REQUEST
         THEN [s1 EXCEPT !.uWAVE_waiting_for_remote = TRUE, !.rtimeSet = TRUE]
         ELSE IF sntID = IC_H2D_SETTINGS_WRITE
         THEN [s1 EXCEPT !.uWAVE_settings_updated = TRUE]
         ELSE IF sntID = IC_H2D_AMB_DTA_CFG
         THEN [s1 EXCEPT !.uWAVE_amb_settings_updated = TRUE]
         ELSE s1
    ELSE s1)

uWAVE_RC_RESPONSE_Parse(s) == [s EXCEPT !.uWAVE_waiting_for_remote = FALSE]

uWAVE_RC_TIMEOUT_Parse(s) == [s EXCEPT !.uWAVE_waiting_for_remote = FALSE]

uWAVE_RC_ASYNC_IN_Parse(s) == [s EXCEPT !.uWAVE_waiting_for_remote = FALSE]

uWAVE_AMB_DTA_Parse(s) == s

uWAVE_DINFO_Parse(s) ==
  [s EXCEPT !.uWAVE_is_busy = FALSE, !.uWAVE_is_devInfo_updated = TRUE]

\* the four sentence writers: the sentence, uWAVE_out_packet_ready,
\* uWAVE_is_busy and uWAVE_time = millis()
SentenceWrite(s, id, rcCmdID) ==
  [s EXCEPT !.uWAVE_out_packet = [id |-> id, rcCmdID |-> rcCmdID],
            !.uWAVE_out_packet_ready = TRUE,
            !.uWAVE_is_busy = TRUE,
            !.timeSet = TRUE]

uWAVE_DINFO_GET_Write(s) == SentenceWrite(s, IC_H2D_DINFO_GET, RC_INVALID)

uWAVE_SETTINGS_WRITE_Write(s) == SentenceWrite(s, IC_H2D_SETTINGS_WRITE, RC_INVALID)

uWAVE_AMB_DTA_CFG_Write(s) == SentenceWrite(s, IC_H2D_AMB_DTA_CFG, RC_INVALID)

uWAVE_RC_REQUEST_Write(s, rcCmdID) == SentenceWrite(s, IC_H2D_RC_REQUEST, rcCmdID)

\* snt is the sentence the pass has completed with a good checksum and the
\* PUWV prefix, or NoSentence
NoSentence == [id |-> IC_D2H_UNKNOWN, sntID |-> IC_D2H_UNKNOWN, errCode |-> LOC_ERR_UNKNOWN]

uWAVE_Input_Process(s, snt) ==
  IF snt.id = IC_D2H_ACK THEN uWAVE_ACK_Parse(s, snt.sntID, snt.errCode)
  ELSE IF snt.id = IC_D2H_RC_RESPONSE THEN uWAVE_RC_RESPONSE_Parse(s)
  ELSE IF snt.id = IC_D2H_RC_TIMEOUT THEN uWAVE_RC_TIMEOUT_Parse(s)
  ELSE IF snt.id = IC_D2H_RC_ASYNC_IN THEN uWAVE_RC_ASYNC_IN_Parse(s)
  ELSE IF snt.id = IC_D2H_AMB_DTA THEN uWAVE_AMB_DTA_Parse(s)
  ELSE IF snt.id = IC_D2H_DINFO THEN uWAVE_DINFO_Parse(s)
  ELSE s

\* the part of loop() that chooses the next sentence
NextSentence(s) ==
  IF (~s.uWAVE_is_busy) /\ s.uWAVE_is_cmd_mode
  THEN IF ~s.uWAVE_is_devInfo_updated THEN uWAVE_DINFO_GET_Write(s)
       ELSE IF ~s.uWAVE_settings_updated THEN uWAVE_SETTINGS_WRITE_Write(s)
       ELSE IF ~s.uWAVE_amb_settings_updated THEN uWAVE_AMB_DTA_CFG_Write(s)
       ELSE IF ~s.uWAVE_waiting_for_remote
       THEN IF s.requestID # RC_INVALID
            THEN Bind(uWAVE_RC_REQUEST_Write(s, s.requestID),
                 LAMBDA s1 : [s1 EXCEPT !.requestID = (@ + 1) % ByteMod])
            ELSE s
       ELSE s
  ELSE s

\* One pass of the loop() of Example 1.  tmo: millis() has reached
\* uWAVE_time + UWAVE_TIMEOUT_MS; rtmo: millis() has reached uWAVE_rtime +
\* UWAVE_REMOTE_TIMEOUT_MS (neither can hold for a time set in this pass).
loop_Example_1(s, snt, tmo, rtmo) ==
  Bind(uWAVE_Input_Process([s EXCEPT !.timeSet = FALSE, !.rtimeSet = FALSE], snt),
  LAMBDA s1 :
  Bind(NextSentence([s1 EXCEPT !.uWAVE_out_packet_ready = FALSE]),
  LAMBDA s2 :
  Bind(IF s2.uWAVE_is_busy /\ tmo /\ (~s2.timeSet)
       THEN [s2 EXCEPT !.uWAVE_is_busy = FALSE, !.uWAVE_waiting_for_remote = FALSE]
       ELSE s2,
  LAMBDA s3 :
  Bind(IF s3.uWAVE_waiting_for_remote /\ rtmo /\ (~s3.rtimeSet)
       THEN [s3 EXCEPT !.uWAVE_waiting_for_remote = FALSE]
       ELSE s3,
  LAMBDA s4 :
  [ node |-> [s4 EXCEPT !.timeSet = FALSE, !.rtimeSet = FALSE],
    afterInput |-> s1,
    written |-> IF s1.uWAVE_out_packet_ready THEN << s1.uWAVE_out_packet >> ELSE << >> ]))))

(***************************************************************************)
(* SpecBootstrap: Example 1 and a modem that answers, answers with an      *)
(* error, answers what was not asked, or keeps silent.  res.log lists the  *)
(* sentences written to the modem, each with the confirmations the sketch  *)
(* had read when it wrote the sentence; arg.confirmed holds the sentence   *)
(* identifiers confirmed so far (DINFO read, or an ACK with error code 0   *)
(* naming the identifier) and arg.repeats counts the sentences written a   *)
(* second time, at most MaxRepeats.                                        *)
(***************************************************************************)
MaxRepeats == 1

ModemSentences ==
  {[id |-> IC_D2H_ACK, sntID |-> i, errCode |-> e] :
     i \in {IC_H2D_SETTINGS_WRITE, IC_H2D_RC_REQUEST, IC_H2D_AMB_DTA_CFG, IC_H2D_DINFO_GET},
     e \in {LOC_ERR_NO_ERROR, LOC_ERR_TRANSMITTER_BUSY}}
  \cup {[id |-> i, sntID |-> IC_D2H_UNKNOWN, errCode |-> LOC_ERR_UNKNOWN] :
          i \in {IC_D2H_DINFO, IC_D2H_RC_RESPONSE, IC_D2H_RC_TIMEOUT, IC_D2H_AMB_DTA}}

Confirms(snt) ==
  IF snt.id = IC_D2H_DINFO THEN {IC_H2D_DINFO_GET}
  ELSE IF (snt.id = IC_D2H_ACK) /\ (snt.errCode = LOC_ERR_NO_ERROR) THEN {snt.sntID}
  ELSE {}

InitBootstrap ==
  /\ node = [n \in {"A"} |-> InitExample_1]
  /\ chan = << >>
  /\ hostIn = << >>
  /\ hostOut = << >>
  /\ arg = [confirmed |-> {}, repeats |-> 0]
  /\ res = [log |-> << >>]

IsRepeat(log, w) ==
  (w.id # IC_H2D_RC_REQUEST) /\ (\E i \in 1 .. Len(log) : log[i].id = w.id)

Logged(w, confirmed) == [id |-> w.id, rcCmdID |-> w.rcCmdID, confirmed |-> confirmed]

BootDone(r, snt) ==
  /\ \A i \in 1 .. Len(r.written) :
       IsRepeat(res.log, r.written[i]) => (arg.repeats < MaxRepeats)
  /\ node' = [node EXCEPT !["A"] = r.node]
  /\ arg' = [confirmed |-> arg.confirmed \cup Confirms(snt),
             repeats |-> arg.repeats
                + Cardinality({i \in 1 .. Len(r.written) : IsRepeat(res.log, r.written[i])})]
  /\ res' = [log |-> res.log
               \o [i \in 1 .. Len(r.written) |->
                     Logged(r.written[i], arg.confirmed \cup Confirms(snt))]]
  /\ UNCHANGED << chan, hostIn, hostOut >>

\* a pass that reads nothing and in which no timeout runs out
BootPass ==
  \E r \in {loop_Example_1(node["A"], NoSentence, FALSE, FALSE)} : BootDone(r, NoSentence)

\* a pass that reads the last byte of a sentence of the modem
BootReceive ==
  \E snt \in ModemSentences :
    \E r \in {loop_Example_1(node["A"], snt, FALSE, FALSE)} : BootDone(r, snt)

\* a pass in which the device timeout has run out
BootTimeout ==
  /\ node["A"].uWAVE_is_busy
  /\ \E r \in {loop_Example_1(node["A"], NoSentence, TRUE, FALSE)} : BootDone(r, NoSentence)

\* a pass in which the remote timeout has run out
BootRemoteTimeout ==
  /\ node["A"].uWAVE_waiting_for_remote
  /\ \E r \in {loop_Example_1(node["A"], NoSentence, FALSE, TRUE)} : BootDone(r, NoSentence)

NextBootstrap == BootPass \/ BootReceive \/ BootTimeout \/ BootRemoteTimeout

SpecBootstrap == InitBootstrap /\ [][NextBootstrap]_vars

\* the place of a sentence in the order of the header comment
KindRank(id) ==
  IF id = IC_H2D_DINFO_GET THEN 0
  ELSE IF id = IC_H2D_SETTINGS_WRITE THEN 1
  ELSE IF id = IC_H2D_AMB_DTA_CFG THEN 2
  ELSE 3

ConfigKinds == {IC_H2D_DINFO_GET, IC_H2D_SETTINGS_WRITE, IC_H2D_AMB_DTA_CFG}

RequestsWritten == Cardinality({i \in 1 .. Len(res.log) : res.log[i].id = IC_H2D_RC_REQUEST})

\* C20: the sentences are written in the order DINFO_GET, SETTINGS_WRITE,
\* AMB_DTA_CFG, remote requests; a sentence is written only when every
\* earlier kind has been confirmed by the modem; the remote requests carry
\* the codes 0, 1, 2, ... in this order, one request per code, none beyond
\* RC_USR_CMD_008; and once requestID is RC_INVALID all sixteen have been
\* written and no sentence is waiting to be written.
C20_BootstrapOrder ==
  /\ \A i, j \in 1 .. Len(res.log) :
       (i < j) => (KindRank(res.log[i].id) <= KindRank(res.log[j].id))
  /\ \A i \in 1 .. Len(res.log) : \A k \in ConfigKinds :
       (KindRank(k) < KindRank(res.log[i].id)) => (k \in res.log[i].confirmed)
  /\ \A i \in 1 .. Len(res.log) :
       (res.log[i].id = IC_H2D_RC_REQUEST) =>
         /\ res.log[i].rcCmdID = RC_PING + (i - (Len(res.log) - RequestsWritten) - 1)
         /\ res.log[i].rcCmdID <= RC_USR_CMD_008
  /\ (node["A"].requestID = RC_INVALID) =>
       (RequestsWritten + (IF node["A"].uWAVE_out_packet_ready THEN 1 ELSE 0)
          = RC_USR_CMD_008 + 1)
  /\ node["A"].uWAVE_out_packet_ready =>
       ((node["A"].uWAVE_out_packet.id = IC_H2D_RC_REQUEST)
          => (node["A"].uWAVE_out_packet.rcCmdID = RC_PING + RequestsWritten))

\* every request from RC_PING to RC_USR_CMD_008 has been written, after a
\* sentence that had to be written twice
C20_Witness ==
  /\ RequestsWritten = RC_USR_CMD_008 + 1
  /\ res.log[Len(res.log)].rcCmdID = RC_USR_CMD_008
  /\ node["A"].requestID = RC_INVALID
  /\ arg.repeats = MaxRepeats
  /\ \A k \in ConfigKinds : \E i \in 1 .. Len(res.log) : res.log[i].id = k

(***************************************************************************)
(* Two boards joined by a line.  A step is one pass of loop() on one       *)
(* board: the pass reads a byte from the host, or the last byte of the     *)
(* frame at the head of the line, or finds a timer expired, or finds the   *)
(* Nagle delay run out.  The frames a pass writes join the line to the     *)
(* peer.  A pass that reads no frame happens only while the frame it       *)
(* writes leaves at most MaxInFlight frames on the line, both directions   *)
(* counted; a pass that reads a frame always happens (it writes at most    *)
(* one frame for the one it reads).  A configuration is the record of      *)
(* node, chan, hostIn and hostOut.                                         *)
(***************************************************************************)
MaxInFlight == 3

\* the k-th byte the host of n writes
HostByteOf(n, k) == (IF n = "A" THEN 64 ELSE 96) + (k % 31)

IdleConfig ==
  [node |-> [n \in Nodes |-> InitNode], chan |-> [n \in Nodes |-> << >>],
   hostIn |-> [n \in Nodes |-> << >>], hostOut |-> [n \in Nodes |-> << >>]]

Config == [node |-> node, chan |-> chan, hostIn |-> hostIn, hostOut |-> hostOut]

\* board n makes a pass in configuration g; recv says whether the pass reads
\* the frame at the head of the line
Apply(g, n, in, hostBytes, recv, exp) ==
  Bind(LoopAndWrite(g.node[n], in, hostBytes,
                    IF recv THEN Head(g.chan[n]) ELSE << >>, exp),
  LAMBDA r :
  [node |-> [g.node EXCEPT ![n] = Forget(r.node)],
   chan |-> [g.chan EXCEPT ![n] = IF recv THEN Tail(@) ELSE @,
                           ![Peer(n)] = @ \o r.toLine],
   hostIn |-> [g.hostIn EXCEPT ![n] = @ \o hostBytes],
   hostOut |-> [g.hostOut EXCEPT ![n] = @ \o r.toHost]])

\* the data frames (type, tx counter, data count) among frames
DataHeaders(frames) ==
  {<< frames[i][2], frames[i][5], frames[i][8] >> :
     i \in {j \in 1 .. Len(frames) : frames[j][2] \in DataTypes}}

\* the line has room for what n has written
Room(h, n) == Len(h.chan[n]) + Len(h.chan[Peer(n)]) <= MaxInFlight

\* the step to configuration h by board n: res.sent collects the data
\* frames each board has written to the line
Becomes(h, n) ==
  /\ node' = h.node
  /\ chan' = h.chan
  /\ hostIn' = h.hostIn
  /\ hostOut' = h.hostOut
  /\ res' = [res EXCEPT !.sent[n] = @ \cup
               DataHeaders(SubSeq(h.chan[Peer(n)], Len(chan[Peer(n)]) + 1,
                                  Len(h.chan[Peer(n)])))]

HostWrite(n, max) ==
  /\ Len(hostIn[n]) < max
  /\ \E in \in Inputs(node[n], << 1 >>) :
       \E h \in {Apply(Config, n, in, << HostByteOf(n, Len(hostIn[n]) + 1) >>, FALSE, {})} :
         Room(h, n) /\ Becomes(h, n)
  /\ UNCHANGED arg

Deliver(n) ==
  /\ chan[n] # << >>
  /\ \E in \in Inputs(node[n], << >>) :
       \E h \in {Apply(Config, n, in, << >>, TRUE, {})} : Becomes(h, n)
  /\ UNCHANGED arg

Expire(n) ==
  /\ NextToExpire(node[n]) # {}
  /\ \E in \in Inputs(node[n], << >>) :
       \E h \in {Apply(Config, n, in, << >>, FALSE, NextToExpire(node[n]))} :
         Room(h, n) /\ Becomes(h, n)
  /\ UNCHANGED arg

Nagle(n) ==
  /\ node[n].ih_Cnt > 0
  /\ \E in \in {i \in Inputs(node[n], << >>) : i.nagle} :
       \E h \in {Apply(Config, n, in, << >>, FALSE, {})} : Room(h, n) /\ Becomes(h, n)
  /\ UNCHANGED arg

InitFrom(g) ==
  /\ node = g.node
  /\ chan = g.chan
  /\ hostIn = g.hostIn
  /\ hostOut = g.hostOut
  /\ arg = [drops |-> 0, dropped |-> {}]
  /\ res = [sent |-> [n \in Nodes |-> {}]]

\* the timers run out and the frames on the line arrive
Fairness ==
  \A n \in Nodes : WF_vars(Deliver(n)) /\ WF_vars(Expire(n)) /\ WF_vars(Nagle(n))

\* board n makes the pass named by kind in configuration g: it reads the
\* next byte of its host ("host"), the frame at the head of the line
\* ("recv"), or finds the timer next to expire expired ("exp"), or the
\* Nagle delay run out ("nagle")
Pass(g, n, kind) ==
  Apply(g, n, [NoInput EXCEPT !.nagle = (kind = "nagle")],
        IF kind = "host" THEN << HostByteOf(n, Len(g.hostIn[n]) + 1) >> ELSE << >>,
        kind = "recv",
        IF kind = "exp" THEN NextToExpire(g.node[n]) ELSE {})

\* the configuration after the passes steps[1 .. k], taken from g
RECURSIVE Run(_, _, _)
Run(g, steps, k) ==
  IF k = 0 THEN g
  ELSE Bind(Run(g, steps, k - 1), LAMBDA h : Pass(h, steps[k][1], steps[k][2]))

(***************************************************************************)
(* SpecHandshake: both boards start HALTED on a lossless line, and each    *)
(* host writes at most MaxStartBytes bytes.                                *)
(***************************************************************************)
MaxStartBytes == 1

NextHandshake ==
  \/ HostWrite("A", MaxStartBytes)
  \/ \E n \in Nodes : Deliver(n) \/ Expire(n) \/ Nagle(n)

SpecHandshake == InitFrom(IdleConfig) /\ [][NextHandshake]_vars /\ Fairness

BothRunning == \A n \in Nodes : node[n].state = uMCP_STATE_RUNNING

\* C2: on a lossless line, once a board has host data buffered both boards
\* eventually are RUNNING.
C2_HandshakeConverges ==
  (\E n \in Nodes : node[n].ih_Cnt > 0) ~> BothRunning

\* frames of type t are on their way to n
OnLine(n, t) == \E i \in 1 .. Len(chan[n]) : chan[n][i][2] = t

\* n is RUNNING with a block sent and not acknowledged, its peer is HALTED
\* with nothing in its ring, and no STR is on its way to the peer
Stranded(n) ==
  /\ node[n].state = uMCP_STATE_RUNNING
  /\ node[n].sentBlocksCnt > 0
  /\ node[Peer(n)].state = uMCP_STATE_HALTED
  /\ node[Peer(n)].ih_Cnt = 0
  /\ ~OnLine(Peer(n), uMCP_PTYPE_STR)

\* no step leads out of a stranded state
StrandedStays == [][\A n \in Nodes : Stranded(n) => Stranded(n)']_vars

\* C17: a board that is RUNNING with unacknowledged data while its peer is
\* HALTED with an empty ring gets back to HALTED or ISTART, or the session
\* is established again with both boards RUNNING.
C17_Reestablishes ==
  \A n \in Nodes :
    Stranded(n) ~> ((node[n].state \in {uMCP_STATE_HALTED, uMCP_STATE_ISTART}) \/ BothRunning)

(***************************************************************************)
(* A session: the configuration reached from two HALTED boards when the    *)
(* host of A writes one byte, the handshake runs, A sends the byte, B      *)
(* acknowledges it and the timers still running run out.  Both boards are *)
(* RUNNING with nothing to send; the host of A has written one byte and B  *)
(* has passed it to its host.                                              *)
(***************************************************************************)
SessionSteps ==
  << << "A", "host" >>, << "B", "recv" >>, << "A", "recv" >>, << "A", "exp" >>,
     << "A", "exp" >>, << "A", "nagle" >>, << "A", "exp" >>, << "B", "exp" >>,
     << "B", "recv" >>, << "B", "recv" >>, << "A", "recv" >>, << "B", "exp" >>,
     << "B", "exp" >> >>

SessionConfig == Run(IdleConfig, SessionSteps, Len(SessionSteps))

\* the bytes the host of A wrote before the session was idle
SessionBytes == Len(SessionConfig.hostIn["A"])

\* n is RUNNING with nothing to send, nothing sent and unacknowledged, no
\* timer running and no frame on its way to it
Quiet(n) ==
  /\ node[n].state = uMCP_STATE_RUNNING
  /\ node[n].ih_Cnt = 0
  /\ node[n].sentBlocksCnt = 0
  /\ \A t \in TimerIds : ~node[n].iTimer_State[t]
  /\ (~node[n].sack) /\ (~node[n].srep)
  /\ chan[n] = << >>

(***************************************************************************)
(* SpecShort: in an idle session on a lossless line the host of A writes   *)
(* MaxShortBytes bytes back to back: no pause of CFG_NAGLE_DELAY_MS occurs *)
(* before the last of them is in the ring.                                 *)
(***************************************************************************)
MaxShortBytes == 2

NextShort ==
  \/ HostWrite("A", SessionBytes + MaxShortBytes)
  \/ \E n \in Nodes : Deliver(n) \/ Expire(n)
  \/ \E n \in Nodes : Nagle(n) /\ (Len(hostIn["A"]) = SessionBytes + MaxShortBytes)

SpecShort == InitFrom(SessionConfig) /\ [][NextShort]_vars

\* C4: the k bytes written to A in an idle session leave A in one data
\* frame, a DTE with data count k, and when the session is idle again B
\* has passed exactly these bytes to its host.
C4_ShortBlockDelivery ==
  /\ \A h \in res.sent["A"] :
       h = << uMCP_PTYPE_DTE, SessionConfig.node["A"].N + 1, MaxShortBytes >>
  /\ ((\A n \in Nodes : Quiet(n)) /\ (Len(hostIn["A"]) = SessionBytes + MaxShortBytes))
       => (hostOut["B"] = hostIn["A"])

(***************************************************************************)
(* SpecRetransmit: in an idle session the host of A writes up to           *)
(* MaxLossBytes bytes and the line loses up to MaxDrops of the data frames *)
(* on their way to B.  arg.dropped holds the lost frames, each by its tx   *)
(* counter and its data.  The line is half duplex and its round trip is    *)
(* shorter than the TIMEOUT and SELECT intervals: a board reads a frame    *)
(* only when its own transmission time (the TX timer) is over, and the     *)
(* TIMEOUT and SELECT timers run out only with no frame on the line.       *)
(* Under these conditions the timers run out and what is on the line       *)
(* arrives.                                                                *)
(***************************************************************************)
MaxLossBytes == 2

MaxDrops == 1

FrameData(f) == [tcnt |-> f[5], data |-> SubSeq(f, 9, 8 + f[8])]

\* the line loses the data frame at the head of the frames on their way to B
DropData ==
  /\ arg.drops < MaxDrops
  /\ chan["B"] # << >>
  /\ Head(chan["B"])[2] \in DataTypes
  /\ BothRunning
  /\ chan' = [chan EXCEPT !["B"] = Tail(@)]
  /\ arg' = [drops |-> arg.drops + 1,
             dropped |-> arg.dropped \cup {FrameData(Head(chan["B"]))}]
  /\ UNCHANGED << node, hostIn, hostOut, res >>

LineEmpty == \A n \in Nodes : chan[n] = << >>

Receive(n) == (~node[n].iTimer_State[uMCP_Timer_TX]) /\ Deliver(n)

Timeout(n) == ((NextToExpire(node[n]) # {uMCP_Timer_TX}) => LineEmpty) /\ Expire(n)

NextRetransmit ==
  \/ HostWrite("A", SessionBytes + MaxLossBytes)
  \/ \E n \in Nodes : Receive(n) \/ Timeout(n) \/ Nagle(n)
  \/ DropData

SpecRetransmit ==
  /\ InitFrom(SessionConfig)
  /\ [][NextRetransmit]_vars
  /\ \A n \in Nodes : WF_vars(Receive(n)) /\ WF_vars(Timeout(n)) /\ WF_vars(Nagle(n))

\* the data frames A can send in SpecRetransmit
LossFrames ==
  {[tcnt |-> SessionConfig.node["A"].N + t,
    data |-> [k \in 1 .. (j - i + 1) |-> HostByteOf("A", SessionBytes + i + k - 1)]] :
     t \in 1 .. MaxLossBytes,
     i \in 1 .. MaxLossBytes,
     j \in 1 .. MaxLossBytes}

\* how often the bytes of data occur, in this order, in q
Occurrences(q, data) ==
  Cardinality({i \in 1 .. (Len(q) - Len(data) + 1) : SubSeq(q, i, i + Len(data) - 1) = data})

RECURSIVE HostPasses(_, _, _)
HostPasses(g, n, k) ==
  IF k = 0 THEN g
  ELSE IF k % 2 = 1 THEN Bind(HostPasses(g, n, k - 1), LAMBDA h : Pass(h, n, "host"))
  ELSE Bind(HostPasses(g, n, k \div 2), LAMBDA h : HostPasses(h, n, k \div 2))

FloodConfig == HostPasses(IdleConfig, "A", CR_RING_SIZE)

MaxFloodBytes == 1

MaxFloodBlocks == 2

FloodOpen == Cardinality(res.sent["A"]) < MaxFloodBlocks

NextFlood ==
  \/ FloodOpen /\ HostWrite("A", CR_RING_SIZE + MaxFloodBytes)
  \/ \E n \in Nodes : FloodOpen /\ Deliver(n)
  \/ \E n \in Nodes : FloodOpen /\ Expire(n)
  \/ \E n \in Nodes : FloodOpen /\ Nagle(n)
  \/ FloodOpen /\ DropData

SpecFlood == InitFrom(FloodConfig) /\ [][NextFlood]_vars

IsPrefixOf(p, q) == Len(p) <= Len(q) /\ SubSeq(q, 1, Len(p)) = p

\* C1: at every moment what B has written to its host is a prefix of what
\* the host of A has written to A (no byte altered, lost, duplicated or
\* reordered)
C1_VerbatimDelivery == IsPrefixOf(hostOut["B"], hostIn["A"])

(***************************************************************************)
(* SpecPeer: one board and a peer that sends any frame at any time: STR,   *)
(* STA, REP, ACK with the rx counters of PeerCounters, and DTA and DTE     *)
(* with tx counters 1 and 2 and rx counters 0 and 1.  The host writes up   *)
(* to MaxPeerSingles bytes.  The handlers are examined in every state the  *)
(* board reaches between two passes of loop(): Deframed(s, f) is the state *)
(* in which loop() finds ip_ready set after the last byte of frame f, and  *)
(* Handled(s, f, in) the state uMCP_OnIncomingPacket leaves.               *)
(***************************************************************************)
MaxPeerSingles == 1

PeerCounters == {0, 1, 2}

PeerFrames ==
  {CtrlFrame(uMCP_PTYPE_STR, 0, 0), CtrlFrame(uMCP_PTYPE_STA, 0, 0),
   CtrlFrame(uMCP_PTYPE_REP, 0, 0)}
  \cup {CtrlFrame(uMCP_PTYPE_ACK, 0, r) : r \in PeerCounters}
  \cup {DataFrame(t, c, r, << 90 >>) : t \in DataTypes, c \in {1, 2}, r \in {0, 1}}

NextPeer ==
  \/ NodeHostByte(MaxPeerSingles)
  \/ NodeReceive(PeerFrames)
  \/ NodeTimer
  \/ NodeNagle

SpecPeer == InitOneBoard /\ [][NextPeer]_vars

Deframed(s, f) == uMCP_DC_Input_Process(s, << >>, f)

Handled(s, f, in) == uMCP_OnIncomingPacket(Deframed(s, f), in)

\* the state in which uMCP_OnIncomingPacket has assigned select in its call
\* of uMCP_SELECT_Set, before that goes on to uMCP_Protocol_Perform: at the
\* start of the STR and STA cases, at the end of the ACK case and, in
\* RUNNING, of the REP and DTA/DTE cases
AtSelect(s, f, in) ==
  Bind([Deframed(s, f) EXCEPT !.ip_ready = FALSE],
  LAMBDA p :
  IF f[2] \in {uMCP_PTYPE_STR, uMCP_PTYPE_STA} THEN SELECT_Assign(p, TRUE)
  ELSE IF f[2] = uMCP_PTYPE_ACK
  THEN SELECT_Assign(OnPacket_ACK_Body(p, f[6]), TRUE)
  ELSE IF p.state # uMCP_STATE_RUNNING THEN p
  ELSE IF f[2] = uMCP_PTYPE_REP
  THEN SELECT_Assign([p EXCEPT !.sack = TRUE, !.srep = FALSE], TRUE)
  ELSE SELECT_Assign(OnPacket_Data_Body(p, in, f[2], f[5], f[6], f[8]),
                     f[2] = uMCP_PTYPE_DTE))

\* the state in which uMCP_ITimer_Expired calls uMCP_Protocol_Perform when
\* the timer next to expire has run out (TIMEOUT in RUNNING, srep set; TX
\* with no TIMEOUT to start)
AtExpiry(s) ==
  IF (NextToExpire(s) = {uMCP_Timer_TMO}) /\ (s.state = uMCP_STATE_RUNNING)
  THEN {[s EXCEPT !.iTimer_State[uMCP_Timer_TMO] = FALSE, !.srep = TRUE]}
  ELSE IF (NextToExpire(s) = {uMCP_Timer_TX})
          /\ ~(s.isTimerPendingOnTxFinish /\ ~s.iTimer_State[uMCP_Timer_TMO])
  THEN {[s EXCEPT !.iTimer_State[uMCP_Timer_TX] = FALSE]}
  ELSE {}

\* the states in which the next pass of loop() can call
\* uMCP_Protocol_Perform: from uMCP_SELECT_Set(true) in the handler of a
\* frame, from the expiry of a timer, or at the end of the pass, a host byte
\* read or not
PerformCalls(s, in) ==
  {c \in {AtSelect(s, f, in) : f \in PeerFrames} : c.select}
  \cup AtExpiry(s)
  \cup {s, uMCP_OnNewByte(s, CFG_HOST_DC_ID, HostByteAt(1))}

\* the frame a handler has built, << >> if it has built none
Built(t) == IF t.ol_ready THEN t.ol_buffer ELSE << >>

\* the state the claim gives a board in state st after a frame of type
\* ptype with rx counter rcnt
NextState(st, ptype, rcnt) ==
  IF ptype = uMCP_PTYPE_STR
  THEN IF st \in {uMCP_STATE_HALTED, uMCP_STATE_ISTART} THEN uMCP_STATE_ASTART
       ELSE IF st = uMCP_STATE_ASTART THEN uMCP_STATE_RUNNING
       ELSE uMCP_STATE_HALTED
  ELSE IF ptype = uMCP_PTYPE_STA
  THEN IF st = uMCP_STATE_HALTED THEN st ELSE uMCP_STATE_RUNNING
  ELSE IF (ptype = uMCP_PTYPE_ACK) /\ (st = uMCP_STATE_ASTART) /\ (rcnt = 0)
  THEN uMCP_STATE_RUNNING
  ELSE st

\* the reply the claim gives to an STR or STA: STA, ACK(0,0), or none named
Reply(st, ptype) ==
  IF (ptype = uMCP_PTYPE_STR) /\ (st \in {uMCP_STATE_HALTED, uMCP_STATE_ISTART})
  THEN {CtrlFrame(uMCP_PTYPE_STA, 0, 0)}
  ELSE IF ((ptype = uMCP_PTYPE_STR) /\ (st = uMCP_STATE_ASTART))
          \/ ((ptype = uMCP_PTYPE_STA) /\ (st # uMCP_STATE_HALTED))
  THEN {CtrlFrame(uMCP_PTYPE_ACK, 0, 0)}
  ELSE {}

\* C22: the protocol state changes only by the steps of the handshake
\* relation: a frame takes the board from its state to the state the
\* relation gives, with the reply it gives (STA, ACK(0,0); the ACK read in
\* ASTART is answered by no frame: none is built when the board, now
\* RUNNING, takes SELECT); the timers, uMCP_Protocol_Perform and the rest of
\* a pass leave the state alone but for the autostart, which takes a HALTED
\* board with bytes in the ring to ISTART and builds STR.
C22_HandshakeRelation ==
  \A in \in Inputs(node["A"], << 1 >>) :
    /\ \A f \in PeerFrames :
         /\ Handled(node["A"], f, in).state = NextState(node["A"].state, f[2], f[6])
         /\ (Reply(node["A"].state, f[2]) # {})
              => (Built(Handled(node["A"], f, in)) \in Reply(node["A"].state, f[2]))
         /\ ((f[2] = uMCP_PTYPE_ACK) /\ (node["A"].state = uMCP_STATE_ASTART))
              => (Built(AtSelect(node["A"], f, in)) = << >>)
    /\ \A t \in TimerIds : uMCP_ITimer_Expired(node["A"], in, t).state = node["A"].state
    /\ uMCP_Protocol_Perform(node["A"], in).state = node["A"].state
    /\ (LoopTail(node["A"], in, {}).state # node["A"].state)
         => /\ node["A"].state = uMCP_STATE_HALTED
            /\ node["A"].ih_Cnt > 0
            /\ LoopTail(node["A"], in, {}).state = uMCP_STATE_ISTART
            /\ Built(LoopTail(node["A"], in, {})) = CtrlFrame(uMCP_PTYPE_STR, 0, 0)

\* the board has answered an STR with STA and waits in ASTART, where a
\* second STR takes it to RUNNING
C22_Witness ==
  /\ node["A"].state = uMCP_STATE_ASTART
  /\ res.toLine = << CtrlFrame(uMCP_PTYPE_STA, 0, 0) >>
  /\ Handled(node["A"], CtrlFrame(uMCP_PTYPE_STR, 0, 0), NoInput).state = uMCP_STATE_RUNNING

\* the counters and the sent-block window as a new session needs them
Reset(t) ==
  /\ t.N = 0
  /\ t.R = 0
  /\ t.A = 0
  /\ t.sentBlocksCnt = 0
  /\ \A i \in DOMAIN t.sentBlocksSize : t.sentBlocksSize[i] = 0

Enters(s, t) ==
  (t.state \in {uMCP_STATE_HALTED, uMCP_STATE_ISTART}) /\ (t.state # s.state)

\* C23: a board that enters HALTED (at setup, or on an STR read in RUNNING)
\* or ISTART (autostart) has N, R, A and sentBlocksCnt at 0 and a recorded
\* length of 0 in every slot of the sent-block window.
C23_ResetOnEntry ==
  /\ Reset(InitNode)
  /\ \A in \in Inputs(node["A"], << 1 >>) :
       /\ \A f \in PeerFrames :
            Enters(node["A"], Handled(node["A"], f, in)) => Reset(Handled(node["A"], f, in))
       /\ Enters(node["A"], LoopTail(node["A"], in, {})) => Reset(LoopTail(node["A"], in, {}))

\* the frame the claim has uMCP_Protocol_Perform send with an empty ring:
\* REP(N, 0), else the block A + 1 again as DTE, else ACK(N, R), else none
SendChoice(s, in) ==
  IF s.srep THEN CtrlFrame(uMCP_PTYPE_REP, s.N, 0)
  ELSE IF s.sentBlocksCnt > 0
  THEN DataFrame(uMCP_PTYPE_DTE, (s.A + 1) % ByteMod, s.R,
                 RingBytes(s, sentBlocksRPos_Get(s, in, (s.A + 1) % ByteMod),
                           sentBlocksSize_Get(s, in, (s.A + 1) % ByteMod)))
  ELSE IF (~s.selectDefaultState) \/ s.sack THEN CtrlFrame(uMCP_PTYPE_ACK, s.N, s.R)
  ELSE << >>

\* C24: with an empty ring, RUNNING, SELECT held and neither TX nor TIMEOUT
\* active, uMCP_Protocol_Perform builds exactly the frame of SendChoice:
\* REP(N, 0) if a reply is pending (srep cleared), else the block A + 1 as
\* DTE if sentBlocksCnt > 0, else ACK(N, R) if the default-hold policy is
\* off or an ack is pending (sack cleared), else nothing.
C24_SendPriority ==
  \A in \in Inputs(node["A"], << >>) :
    \A c \in PerformCalls(node["A"], in) :
      (HoldsLine(c) /\ (c.ih_Cnt = 0)) =>
        /\ Built(uMCP_Protocol_Perform(c, in)) = SendChoice(c, in)
        /\ c.srep => ~uMCP_Protocol_Perform(c, in).srep
        /\ ((~c.srep) /\ (c.sentBlocksCnt = 0) /\ c.sack)
             => ~uMCP_Protocol_Perform(c, in).sack
        /\ (SendChoice(c, in) = << >>) => (uMCP_Protocol_Perform(c, in) = c)

\* the length of the block uMCP_Protocol_Perform takes from a ring of cnt
\* bytes
BlockLen(cnt) == IF cnt < CFG_DATABLOCK_SIZE THEN cnt ELSE CFG_DATABLOCK_SIZE

Outcomes(s, in) ==
  {Handled(s, f, in) : f \in PeerFrames}
  \cup {uMCP_ITimer_Expired(s, in, t) : t \in NextToExpire(s)}
  \cup {uMCP_Protocol_Perform(c, in) : c \in PerformCalls(s, in)}
  \cup {LoopTail(s, in, {})}

\* C26: a handler that returns with a DTA frame built returns holding
\* SELECT, with the TX timer running (the next block goes out once it has
\* expired); one that returns with a DTE, STR, STA or REP frame built
\* returns not holding SELECT.
C26_SelectAfterSend ==
  \A in \in Inputs(node["A"], << 1 >>) :
    \A t \in Outcomes(node["A"], in) :
      (Built(t) # << >>) =>
        /\ (Built(t)[2] = uMCP_PTYPE_DTA) => (t.select /\ t.iTimer_State[uMCP_Timer_TX])
        /\ (Built(t)[2] \in {uMCP_PTYPE_DTE, uMCP_PTYPE_STR, uMCP_PTYPE_STA, uMCP_PTYPE_REP})
             => ~t.select

\* the board has sent blocks and builds, in the coming pass, a DTA frame
\* with SELECT held at the call
C26_Witness ==
  /\ node["A"].N > 0
  /\ \E c \in PerformCalls(node["A"], NoInput) :
       /\ c.select
       /\ Built(uMCP_Protocol_Perform(c, NoInput)) # << >>
       /\ Built(uMCP_Protocol_Perform(c, NoInput))[2] = uMCP_PTYPE_DTA
       /\ uMCP_Protocol_Perform(c, NoInput).select

\* C27: a board that is RUNNING and holds SELECT still holds SELECT when
\* uMCP_Protocol_Perform returns with the plain ACK(N, R) built.
C27_AckKeepsSelect ==
  \A in \in Inputs(node["A"], << >>) :
    \A c \in PerformCalls(node["A"], in) :
      (HoldsLine(c) /\ (Built(uMCP_Protocol_Perform(c, in)) = CtrlFrame(uMCP_PTYPE_ACK, c.N, c.R)))
        => uMCP_Protocol_Perform(c, in).select

\* the rx counters the claim has an ACK release blocks for: N, or a value
\* strictly inside the circular range (A, N)
ClaimedAcceptable(s, r) ==
  (r = s.N) \/ (\E k \in 1 .. (Dist(s.A, s.N) - 1) : r = (s.A + k) % ByteMod)

\* the state of s after the ACK case of uMCP_OnIncomingPacket has assigned
\* select, for an ACK with rx counter r
AfterAck(s, r) == AtSelect(s, CtrlFrame(uMCP_PTYPE_ACK, 0, r), NoInput)

\* C28: an ACK read in RUNNING leaves the TIMEOUT timer inactive, SELECT
\* held and R and N as they were; if its rx counter r is N or lies in
\* (A, N), A becomes r, sentBlocksCnt decreases by (r - A) mod 256 and the
\* blocks A + 1 .. r have no recorded length left; otherwise A,
\* sentBlocksCnt and the window are unchanged.
C28_AckReception ==
  (node["A"].state = uMCP_STATE_RUNNING) =>
    \A r \in 0 .. (UMCP_PIPELINE_LIMIT - 1) :
      /\ ~AfterAck(node["A"], r).iTimer_State[uMCP_Timer_TMO]
      /\ AfterAck(node["A"], r).select
      /\ AfterAck(node["A"], r).R = node["A"].R
      /\ AfterAck(node["A"], r).N = node["A"].N
      /\ IF ClaimedAcceptable(node["A"], r)
         THEN /\ AfterAck(node["A"], r).A = r
              /\ AfterAck(node["A"], r).sentBlocksCnt
                   = node["A"].sentBlocksCnt - Dist(node["A"].A, r)
              /\ \A k \in 1 .. Dist(node["A"].A, r) :
                   WinIdx((node["A"].A + k) % ByteMod)
                     => (AfterAck(node["A"], r).sentBlocksSize[(node["A"].A + k) % ByteMod] = 0)
         ELSE /\ AfterAck(node["A"], r).A = node["A"].A
              /\ AfterAck(node["A"], r).sentBlocksCnt = node["A"].sentBlocksCnt
              /\ AfterAck(node["A"], r).sentBlocksSize = node["A"].sentBlocksSize

\* data frames with tx counters on both sides of R + 1 and payloads of one
\* and two bytes
OrderedData ==
  {DataFrame(t, c, 0, pl) : t \in DataTypes, c \in 0 .. UMCP_PIPELINE_LIMIT,
                            pl \in {<< 90 >>, << 91, 92 >>}}

\* what the claim has of the state p in which the DTA/DTE case of the
\* handler has assigned select, and of the state h in which the handler
\* returns, for the frame f read in state s
DataOrderHolds(s, f, p, h) ==
  /\ h.R = p.R
  /\ h.oh_buffer = p.oh_buffer
  /\ h.oh_ready = p.oh_ready
  /\ IF f[5] = s.R + 1
     THEN /\ p.R = s.R + 1
          /\ p.oh_ready
          /\ p.oh_buffer = FrameData(f).data
     ELSE /\ p.R = s.R
          /\ p.oh_ready = s.oh_ready
          /\ p.oh_buffer = s.oh_buffer
          /\ p.sack = (s.sack \/ (f[5] <= s.R))

\* C29: in RUNNING, when the DTA/DTE case has assigned select (and when the
\* handler returns, for R and the host output): a frame with tx counter
\* R + 1 leaves R one higher and exactly its payload ready in oh_buffer; a
\* frame with tx counter at most R leaves R and the host output as they
\* were and sack set; a frame with a tx counter above R + 1 leaves R, the
\* host output and sack as they were.
C29_DataOrder ==
  (node["A"].state = uMCP_STATE_RUNNING) =>
    \A f \in OrderedData, in \in Inputs(node["A"], << >>) :
      Bind(AtSelect(node["A"], f, in),
      LAMBDA p :
      Bind(Handled(node["A"], f, in),
      LAMBDA h : DataOrderHolds(node["A"], f, p, h)))

\* the board has accepted two blocks: the frame with tx counter 1 is a
\* duplicate, the one with tx counter 4 is out of order, the one with tx
\* counter 3 is the next
C29_Witness ==
  /\ node["A"].state = uMCP_STATE_RUNNING
  /\ node["A"].R = 2
  /\ ~node["A"].sack
  /\ AtSelect(node["A"], DataFrame(uMCP_PTYPE_DTA, 1, 0, << 90 >>), NoInput).sack
  /\ ~AtSelect(node["A"], DataFrame(uMCP_PTYPE_DTA, 4, 0, << 90 >>), NoInput).sack
  /\ AtSelect(node["A"], DataFrame(uMCP_PTYPE_DTA, 3, 0, << 91, 92 >>), NoInput).oh_buffer = << 91, 92 >>

\* what the claim has of the state p in which the DTA/DTE case has
\* assigned select and of the state h in which the handler returns
TokenHolds(f, in, p, h) ==
  IF f[2] = uMCP_PTYPE_DTA
  THEN /\ h.iTimer_State[uMCP_Timer_TMO]
       /\ ~h.select
       /\ h = p
  ELSE /\ ~p.iTimer_State[uMCP_Timer_TMO]
       /\ p.select
       /\ h = uMCP_Protocol_Perform(p, in)

\* C30: in RUNNING, when the handler of a DTA returns, the TIMEOUT timer is
\* active, select is false and uMCP_Protocol_Perform has not run; when the
\* DTE case has assigned select, the TIMEOUT timer is inactive and select
\* is true, and the handler returns the state one call of
\* uMCP_Protocol_Perform makes of that.
C30_TokenHandling ==
  (node["A"].state = uMCP_STATE_RUNNING) =>
    \A f \in OrderedData, in \in Inputs(node["A"], << >>) :
      Bind(AtSelect(node["A"], f, in),
      LAMBDA p :
      Bind(Handled(node["A"], f, in),
      LAMBDA h : TokenHolds(f, in, p, h)))

\* a RUNNING board with a byte in the ring and the TX timer run out: the
\* handler of a DTE sends the byte in the same call, the handler of a DTA
\* sends nothing
C30_Witness ==
  /\ node["A"].state = uMCP_STATE_RUNNING
  /\ node["A"].ih_Cnt > 0
  /\ ~node["A"].iTimer_State[uMCP_Timer_TX]
  /\ \E in \in Inputs(node["A"], << >>) :
       /\ Built(Handled(node["A"], DataFrame(uMCP_PTYPE_DTE, 1, 0, << 90 >>), in)) # << >>
       /\ Built(Handled(node["A"], DataFrame(uMCP_PTYPE_DTA, 1, 0, << 90 >>), in)) = << >>

(***************************************************************************)
(* Example 3 (VLBL report).  The sketch asks a remote modem through the    *)
(* local one and reports each answer to the host in a $PVLBL message.      *)
(* Times are values of millis().  A sentence of the modem is the record    *)
(* of Example 1 (id, sntID, errCode); a pass takes it with a good checksum *)
(* and the PUWV prefix, or takes NoSentence.                               *)
(***************************************************************************)
UWAVE_TIMEOUT_MS == 2000
UWAVE_REMOTE_TIMEOUT_MS == 5000
UWAVE_REQUEST_PERIOD_MS == 10000
GNSS_FIX_OBSOLETE_MS == 2000
REQUEST_IDS_NUMBER == 8
RC_DPT_GET == 2
RC_TMP_GET == 3
RC_BAT_V_GET == 4

requestIDs ==
  << RC_DPT_GET, RC_TMP_GET, RC_BAT_V_GET, RC_DPT_GET,
     RC_DPT_GET, RC_DPT_GET, RC_DPT_GET, RC_DPT_GET >>

\* the state after setup(): uWAVE_Init sets the command mode, waits 500 ms
\* and sets uWAVE_time = millis()
SetupDelayMs == 500

InitExample_3 ==
  [ uWAVE_request_time |-> 0,
    uWAVE_time |-> SetupDelayMs,
    uWAVE_rtime |-> 0,
    GNSS_fix_time |-> 0,
    uWAVE_is_cmd_mode |-> TRUE,
    uWAVE_settings_updated |-> FALSE,
    uWAVE_amb_settings_updated |-> FALSE,
    uWAVE_is_busy |-> FALSE,
    uWAVE_waiting_for_remote |-> FALSE,
    uWAVE_response_received |-> FALSE,
    uWAVE_out_packet |-> [id |-> IC_D2H_UNKNOWN, rcCmdID |-> RC_INVALID],
    uWAVE_out_packet_ready |-> FALSE,
    out_packet_ready |-> FALSE,
    requestIDIdx |-> 0,
    target_DataID |-> RC_INVALID ]

uWAVE_ACK_Parse_Example_3(s, now, sntID, errCode) ==
  Bind([s EXCEPT !.uWAVE_is_busy = FALSE],
  LAMBDA s1 :
    IF errCode = LOC_ERR_NO_ERROR
    THEN IF sntID = IC_H2D_RC_REQUEST
         THEN [s1 EXCEPT !.uWAVE_waiting_for_remote = TRUE, !.uWAVE_rtime = now]
         ELSE IF sntID = IC_H2D_SETTINGS_WRITE
         THEN [s1 EXCEPT !.uWAVE_settings_updated = TRUE]
         ELSE IF sntID = IC_H2D_AMB_DTA_CFG
         THEN [s1 EXCEPT !.uWAVE_amb_settings_updated = TRUE]
         ELSE s1
    ELSE s1)

uWAVE_RC_RESPONSE_Parse_Example_3(s, now, rcCmdID) ==
  [s EXCEPT !.uWAVE_waiting_for_remote = FALSE,
            !.uWAVE_request_time = now,
            !.target_DataID = rcCmdID,
            !.uWAVE_response_received = TRUE]

uWAVE_RC_TIMEOUT_Parse_Example_3(s) ==
  [s EXCEPT !.target_DataID = RC_INVALID,
            !.uWAVE_response_received = TRUE,
            !.uWAVE_waiting_for_remote = FALSE,
            !.uWAVE_request_time = 0]

\* the $PUWV3 of the model answers the request last written
uWAVE_Input_Process_Example_3(s, now, snt) ==
  IF snt.id = IC_D2H_ACK THEN uWAVE_ACK_Parse_Example_3(s, now, snt.sntID, snt.errCode)
  ELSE IF snt.id = IC_D2H_RC_RESPONSE
  THEN uWAVE_RC_RESPONSE_Parse_Example_3(s, now, s.uWAVE_out_packet.rcCmdID)
  ELSE IF snt.id = IC_D2H_RC_TIMEOUT THEN uWAVE_RC_TIMEOUT_Parse_Example_3(s)
  ELSE s

\* fix: the pass has completed an RMC sentence that GNSS_RMC_Parse takes
\* for valid
GNSS_Input_Process(s, now, fix) ==
  IF fix THEN [s EXCEPT !.GNSS_fix_time = now] ELSE s

SentenceWrite_Example_3(s, now, id, rcCmdID) ==
  [s EXCEPT !.uWAVE_out_packet = [id |-> id, rcCmdID |-> rcCmdID],
            !.uWAVE_out_packet_ready = TRUE,
            !.uWAVE_is_busy = TRUE,
            !.uWAVE_time = now]

\* the part of loop() that chooses the next sentence
NextSentence_Example_3(s, now) ==
  IF (~s.uWAVE_is_busy) /\ s.uWAVE_is_cmd_mode
  THEN IF ~s.uWAVE_settings_updated
       THEN SentenceWrite_Example_3(s, now, IC_H2D_SETTINGS_WRITE, RC_INVALID)
       ELSE IF ~s.uWAVE_amb_settings_updated
       THEN SentenceWrite_Example_3(s, now, IC_H2D_AMB_DTA_CFG, RC_INVALID)
       ELSE IF (~s.uWAVE_waiting_for_remote)
               /\ (now < s.GNSS_fix_time + GNSS_FIX_OBSOLETE_MS)
               /\ (now >= s.uWAVE_request_time + UWAVE_REQUEST_PERIOD_MS)
       THEN Bind(SentenceWrite_Example_3(s, now, IC_H2D_RC_REQUEST,
                                         requestIDs[s.requestIDIdx + 1]),
            LAMBDA s1 : [s1 EXCEPT !.requestIDIdx = (@ + 1) % REQUEST_IDS_NUMBER])
       ELSE s
  ELSE s

PVLBL_Write(s) == [s EXCEPT !.out_packet_ready = TRUE]

\* One pass of the loop() of Example 3 at millis() = now.
loop_Example_3(s, now, snt, fix) ==
  Bind(uWAVE_Input_Process_Example_3(s, now, snt),
  LAMBDA s1 :
  Bind(GNSS_Input_Process(s1, now, fix),
  LAMBDA s2 :
  Bind(NextSentence_Example_3([s2 EXCEPT !.uWAVE_out_packet_ready = FALSE,
                                         !.out_packet_ready = FALSE], now),
  LAMBDA s3 :
  Bind(IF s3.uWAVE_is_busy /\ (now >= s3.uWAVE_time + UWAVE_TIMEOUT_MS)
       THEN [s3 EXCEPT !.uWAVE_is_busy = FALSE, !.uWAVE_waiting_for_remote = FALSE]
       ELSE s3,
  LAMBDA s4 :
  Bind(IF s4.uWAVE_waiting_for_remote /\ (now >= s4.uWAVE_rtime + UWAVE_REMOTE_TIMEOUT_MS)
       THEN [s4 EXCEPT !.uWAVE_waiting_for_remote = FALSE, !.uWAVE_request_time = 0]
       ELSE s4,
  LAMBDA s5 :
  [ node |-> IF s5.uWAVE_response_received
             THEN [PVLBL_Write(s5) EXCEPT !.uWAVE_response_received = FALSE]
             ELSE s5,
    toModem |-> IF s2.uWAVE_out_packet_ready THEN << s2.uWAVE_out_packet >> ELSE << >>,
    toHost |-> IF s2.out_packet_ready THEN 1 ELSE 0 ])))))

(***************************************************************************)
(* SpecVlbl: Example 3, a GNSS receiver that has a fix and writes one RMC   *)
(* sentence every TickMs, and a modem that acknowledges each sentence,     *)
(* with error code 0 or a busy code, and answers an accepted request once, *)
(* with $PUWV3 or $PUWV4, or with a sentence that is lost on its way (bad  *)
(* checksum).  A step is a pass TickMs after the last.  arg.now is         *)
(* millis(),                                                               *)
(* arg.got the sentence the modem has to acknowledge, arg.remote whether   *)
(* the modem owes the answer to a request.  res.reqTimes lists the times   *)
(* at which remote requests were written to the modem, res.ended counts    *)
(* the accepted requests the sketch has stopped waiting for, res.pvlbl the *)
(* $PVLBL messages written to the host.                                    *)
(***************************************************************************)
TickMs == 1000
MaxMillis == 19500

InitVlbl ==
  /\ node = [n \in {"A"} |-> InitExample_3]
  /\ chan = << >>
  /\ hostIn = << >>
  /\ hostOut = << >>
  /\ arg = [now |-> SetupDelayMs, got |-> IC_D2H_UNKNOWN, remote |-> FALSE]
  /\ res = [reqTimes |-> << >>, ended |-> 0, pvlbl |-> 0]

VlblDone(r, now, got, remote) ==
  /\ node' = [node EXCEPT !["A"] = r.node]
  /\ arg' = [now |-> now,
             got |-> IF r.toModem # << >> THEN r.toModem[1].id ELSE got,
             remote |-> remote]
  /\ res' = [reqTimes |-> IF (r.toModem # << >>) /\ (r.toModem[1].id = IC_H2D_RC_REQUEST)
                          THEN Append(res.reqTimes, now) ELSE res.reqTimes,
             ended |-> res.ended
                       + (IF node["A"].uWAVE_waiting_for_remote
                             /\ ~r.node.uWAVE_waiting_for_remote THEN 1 ELSE 0),
             pvlbl |-> res.pvlbl + r.toHost]
  /\ UNCHANGED << chan, hostIn, hostOut >>

\* a pass TickMs later that completes the RMC sentence of the GNSS
\* receiver and reads nothing from the modem
VlblPass ==
  /\ arg.now < MaxMillis
  /\ \E r \in {loop_Example_3(node["A"], arg.now + TickMs, NoSentence, TRUE)} :
       VlblDone(r, arg.now + TickMs, arg.got, arg.remote)

\* a pass TickMs later that also completes the ACK of the modem for the
\* sentence it has got
VlblAck ==
  /\ arg.now < MaxMillis
  /\ arg.got # IC_D2H_UNKNOWN
  /\ \E e \in {LOC_ERR_NO_ERROR, LOC_ERR_TRANSMITTER_BUSY} :
       \E r \in {loop_Example_3(node["A"], arg.now + TickMs,
                                [id |-> IC_D2H_ACK, sntID |-> arg.got, errCode |-> e], TRUE)} :
         VlblDone(r, arg.now + TickMs, IC_D2H_UNKNOWN,
                  arg.remote \/ ((arg.got = IC_H2D_RC_REQUEST) /\ (e = LOC_ERR_NO_ERROR)))

\* a pass TickMs later that also completes the answer of the modem to an
\* accepted request
VlblAnswer ==
  /\ arg.now < MaxMillis
  /\ arg.remote
  /\ \E i \in {IC_D2H_RC_RESPONSE, IC_D2H_RC_TIMEOUT} :
       \E r \in {loop_Example_3(node["A"], arg.now + TickMs,
                                [id |-> i, sntID |-> IC_D2H_UNKNOWN, errCode |-> LOC_ERR_UNKNOWN],
                                TRUE)} :
         VlblDone(r, arg.now + TickMs, arg.got, FALSE)

\* the answer of the modem is lost: the pass that completes it finds a bad
\* checksum and goes on as a pass that reads nothing from the modem
VlblLost ==
  /\ arg.now < MaxMillis
  /\ arg.remote
  /\ \E r \in {loop_Example_3(node["A"], arg.now + TickMs, NoSentence, TRUE)} :
       VlblDone(r, arg.now + TickMs, arg.got, FALSE)

NextVlbl == VlblPass \/ VlblAck \/ VlblAnswer \/ VlblLost

SpecVlbl == InitVlbl /\ [][NextVlbl]_vars

\* the $PVLBL messages written or about to be written
Reported == res.pvlbl + (IF node["A"].out_packet_ready THEN 1 ELSE 0)

\* C21: once the sketch has stopped waiting and the modem owes no answer,
\* every accepted request has ended in one $PVLBL message (written, or
\* built and written at the start of the next pass), and two remote
\* requests that follow each other are written to the modem at least
\* UWAVE_REQUEST_PERIOD_MS apart.
C21_OneReportPerRequest ==
  /\ ((~node["A"].uWAVE_waiting_for_remote) /\ (~arg.remote)) => (Reported = res.ended)
  /\ \A i \in 1 .. (Len(res.reqTimes) - 1) :
       res.reqTimes[i + 1] - res.reqTimes[i] >= UWAVE_REQUEST_PERIOD_MS

\* ---------------------------------------------------------------------
\* the reply-pending flag (srep) on two boards

\* the step leaves a frame of type t on the line to the peer of n
PutsOnLine(n, t) ==
  \E i \in 1 .. Len(chan'[Peer(n)]) : chan'[Peer(n)][i][2] = t

\* the step is n reading a frame of type t from its line
TakesOffLine(n, t) ==
  /\ chan[n] # << >>
  /\ chan'[n] = Tail(chan[n])
  /\ chan[n][1][2] = t

\* C31: the reply-pending flag is set only by the TIMEOUT timer running
\* out in RUNNING, it is cleared only by a step that puts a REP on the
\* line or reads a REP, and a node in RUNNING with the flag set
\* eventually has a REP on the line to its peer.
C31_TimeoutSendsRep ==
  /\ [][\A n \in Nodes :
          ((~node[n].srep) /\ node'[n].srep) =>
             (node[n].iTimer_State[uMCP_Timer_TMO] /\ (node[n].state = uMCP_STATE_RUNNING))]_vars
  /\ [][\A n \in Nodes :
          (node[n].srep /\ (~node'[n].srep)) =>
             (PutsOnLine(n, uMCP_PTYPE_REP) \/ TakesOffLine(n, uMCP_PTYPE_REP))]_vars
  /\ \A n \in Nodes :
       ((node[n].state = uMCP_STATE_RUNNING) /\ node[n].srep) ~> OnLine(Peer(n), uMCP_PTYPE_REP)

(***************************************************************************)
(* SpecReply: SpecHandshake with strong fairness for the timers and the    *)
(* Nagle delay: a timer that is active runs out and a delay that has       *)
(* started ends, also when the line is full in some of the states in       *)
(* between.                                                                *)
(***************************************************************************)
SpecReply ==
  /\ InitFrom(IdleConfig)
  /\ [][NextHandshake]_vars
  /\ Fairness
  /\ \A n \in Nodes : SF_vars(Expire(n)) /\ SF_vars(Nagle(n))

\* the types of the frames that carry an rx counter
AckTypes == {uMCP_PTYPE_ACK} \cup DataTypes

\* the step adds to the line a frame that carries the R of n after the step
AnswersWithR(n) ==
  \E i \in (Len(chan[Peer(n)]) + 1) .. Len(chan'[Peer(n)]) :
     /\ chan'[Peer(n)][i][2] \in AckTypes
     /\ chan'[Peer(n)][i][6] = node'[n].R

\* a frame that carries the R of n is on the line to its peer
CarriesR(n) ==
  \E i \in 1 .. Len(chan[Peer(n)]) :
     /\ chan[Peer(n)][i][2] \in AckTypes
     /\ chan[Peer(n)][i][6] = node[n].R

\* C32: a board that reads a REP in RUNNING either writes in that pass a
\* frame that carries its R, or is left with sack set, srep clear and
\* SELECT held; and a board in RUNNING with sack set eventually has a frame
\* on the line that carries its R.
C32_RepAnswered ==
  /\ [][\A n \in Nodes :
          (TakesOffLine(n, uMCP_PTYPE_REP) /\ (node[n].state = uMCP_STATE_RUNNING)) =>
             (AnswersWithR(n) \/ (node'[n].sack /\ node'[n].select /\ (~node'[n].srep)))]_vars
  /\ \A n \in Nodes :
       ((node[n].state = uMCP_STATE_RUNNING) /\ node[n].sack) ~> CarriesR(n)

\* ---------------------------------------------------------------------
\* the SELECT timer

\* the board at the point where the SELECT timer has run out and
\* uMCP_SELECT_Set has assigned select
SelectRegained(s) ==
  SELECT_Assign([s EXCEPT !.iTimer_State[uMCP_Timer_SELECT] = FALSE],
                CFG_SELECT_DEFAULT_STATE)

\* C33: between two passes the SELECT timer is active exactly when the
\* board does not hold SELECT; and when the SELECT timer is the one to
\* run out, the pass in which it does has the board hold SELECT with the
\* timer stopped, and makes of that state what one call of
\* uMCP_Protocol_Perform makes of it.
C33_SelectRegained ==
  /\ node["A"].iTimer_State[uMCP_Timer_SELECT] = ~node["A"].select
  /\ (NextToExpire(node["A"]) = {uMCP_Timer_SELECT}) =>
       \A in \in Inputs(node["A"], << >>) :
          Bind(SelectRegained(node["A"]),
          LAMBDA p :
            /\ p.select
            /\ ~p.iTimer_State[uMCP_Timer_SELECT]
            /\ uMCP_ITimers_Process(node["A"], in, {uMCP_Timer_SELECT})
                 = uMCP_Protocol_Perform(p, in))

\* the board is RUNNING without SELECT, host data is waiting in the ring
\* and the SELECT timer is the next to run out
C33_Witness ==
  /\ node["A"].state = uMCP_STATE_RUNNING
  /\ ~node["A"].select
  /\ node["A"].ih_Cnt > 0
  /\ NextToExpire(node["A"]) = {uMCP_Timer_SELECT}

\* ---------------------------------------------------------------------
\* a data frame with data count 0

\* the bytes of a DTA or DTE frame up to a data-count byte of 0
ZeroCountFrame(ptype, tcnt, rcnt) == Append(DataHeader(ptype, tcnt, rcnt), 0)

ZeroCountFrames ==
  {<< t, c, r >> : t \in DataTypes, c \in PeerCounters, r \in PeerCounters}

\* the frame of type d[1] with counters d[2], d[3] and data count 0, read by
\* board s: it is not ready before the data-count byte, it is ready at that
\* byte as an ACK with the counters of the frame, and the state machine
\* makes of it what it makes of ACK(d[2], d[3])
ZeroCountHolds(s, d, in) ==
  Bind(ZeroCountFrame(d[1], d[2], d[3]),
  LAMBDA z :
  Bind(Deframed(s, SubSeq(z, 1, Len(z) - 1)),
  LAMBDA before :
  Bind(Deframed(s, z),
  LAMBDA at :
    /\ before.ip_start /\ (~before.ip_ready) /\ (before.ip_type = d[1])
    /\ (~at.ip_start) /\ at.ip_ready
    /\ at.ip_type = uMCP_PTYPE_ACK
    /\ at.ip_tcnt = d[2]
    /\ at.ip_rcnt = d[3]
    /\ Forget(Handled(s, z, in)) = Forget(Handled(s, CtrlFrame(uMCP_PTYPE_ACK, d[2], d[3]), in)))))

\* C34: a DTA or DTE frame with a valid header and a data-count byte of 0
\* is ready at the data-count byte with its type forced to ACK and its
\* counters kept, and uMCP_OnIncomingPacket handles it as the ACK with
\* those counters.
C34_ZeroDataCount ==
  \A d \in ZeroCountFrames, in \in Inputs(node["A"], << >>) :
     ZeroCountHolds(node["A"], d, in)

\* the board is RUNNING with a block sent and not acknowledged, and a DTA
\* with data count 0 whose rx counter is N acknowledges it
C34_Witness ==
  /\ node["A"].state = uMCP_STATE_RUNNING
  /\ node["A"].sentBlocksCnt > 0
  /\ node["A"].N \in PeerCounters
  /\ Handled(node["A"], ZeroCountFrame(uMCP_PTYPE_DTA, 0, node["A"].N), NoInput).sentBlocksCnt = 0

(***************************************************************************)
(* SpecOverwrite: the host of A writes one byte, the session is            *)
(* established and A sends the byte as block 1; while A waits for the      *)
(* answer with its TIMEOUT timer running the host writes                   *)
(* CR_RING_SIZE - 2 more bytes, one per pass (OverwriteConfig).  From      *)
(* there the host writes up to MaxOverwriteBytes more bytes, the frames    *)
(* arrive and the timers run out, until A has written MaxOverwriteBlocks   *)
(* more data frames.                                                       *)
(***************************************************************************)
OverwriteSteps ==
  << << "A", "host" >>, << "B", "recv" >>, << "A", "recv" >>, << "B", "recv" >>,
     << "A", "exp" >>, << "A", "exp" >>, << "A", "nagle" >>, << "A", "exp" >> >>

OverwriteConfig ==
  HostPasses(Run(IdleConfig, OverwriteSteps, Len(OverwriteSteps)), "A", CR_RING_SIZE - 2)

MaxOverwriteBytes == 2

MaxOverwriteBlocks == 2

\* A has written fewer than MaxOverwriteBlocks data frames since
\* OverwriteConfig
OverwriteOpen == Cardinality(res.sent["A"]) < MaxOverwriteBlocks

NextOverwrite ==
  \/ OverwriteOpen /\ HostWrite("A", CR_RING_SIZE - 1 + MaxOverwriteBytes)
  \/ \E n \in Nodes : OverwriteOpen /\ Deliver(n)
  \/ \E n \in Nodes : OverwriteOpen /\ Expire(n)
  \/ \E n \in Nodes : OverwriteOpen /\ Nagle(n)

SpecOverwrite == InitFrom(OverwriteConfig) /\ [][NextOverwrite]_vars

\* block b of board s has been sent and is not acknowledged
Outstanding(s, b) ==
  /\ s.state = uMCP_STATE_RUNNING
  /\ WinIdx(b)
  /\ s.A < b /\ b <= s.N
  /\ s.sentBlocksSize[b] # 0

\* the data count and the data bytes uMCP_DataBlockResend sends for block b
ResendPayload(s, b) ==
  [dcnt |-> s.sentBlocksSize[b],
   data |-> RingBytes(s, s.sentBlocksRPos[b], s.sentBlocksSize[b])]

\* C35: while a block is sent and not acknowledged, no pass changes the
\* data count and the data bytes a retransmission of it carries (the bytes
\* of the block in the ring are not overwritten by host bytes).
C35_StablePayload ==
  [][\A b \in 0 .. (UMCP_MAX_SENT_BLOCKS - 1) :
       (Outstanding(node["A"], b) /\ Outstanding(node'["A"], b)) =>
          (ResendPayload(node'["A"], b) = ResendPayload(node["A"], b))]_vars

\* ---------------------------------------------------------------------
\* acknowledgements with nothing outstanding

\* ACK and data frames with the rx counters of WinCounters
AckingFrames ==
  {CtrlFrame(uMCP_PTYPE_ACK, 0, r) : r \in WinCounters}
  \cup {DataFrame(t, 1, r, << 90 >>) : t \in DataTypes, r \in WinCounters}

\* C36: A is not past N and sentBlocksCnt is not below 0 (the counters of
\* the model stay far from 255, so "past" is A > N and a wrapped count is
\* one above N); and with nothing outstanding (A = N) an ACK or a data
\* frame whose rx counter is not N leaves A and sentBlocksCnt as they were.
C36_NoAckOfUnsent ==
  /\ node["A"].A <= node["A"].N
  /\ node["A"].sentBlocksCnt <= node["A"].N
  /\ ((node["A"].state = uMCP_STATE_RUNNING) /\ (node["A"].A = node["A"].N)) =>
       \A f \in AckingFrames :
          (f[6] # node["A"].N) =>
             Bind(AtSelect(node["A"], f, NoInput),
             LAMBDA p : /\ p.A = node["A"].A
                        /\ p.sentBlocksCnt = node["A"].sentBlocksCnt)

\* ---------------------------------------------------------------------
\* the frames built in one pass of loop()

\* s with the line output buffer marked as written; nothing but
\* uMCP_DC_Output_Process reads ol_ready
Cleared(s) == [s EXCEPT !.ol_ready = FALSE]

One(b) == IF b THEN 1 ELSE 0

\* the STR or STA case calls uMCP_CtrlSend after uMCP_SELECT_Set(true)
Replies(pType, st) ==
  IF pType = uMCP_PTYPE_STR
  THEN st \in {uMCP_STATE_HALTED, uMCP_STATE_ISTART, uMCP_STATE_ASTART}
  ELSE st \in {uMCP_STATE_ISTART, uMCP_STATE_ASTART, uMCP_STATE_RUNNING}

\* the frames uMCP_OnIncomingPacket builds for the frame made ready in a:
\* in the STR and STA cases the one built inside uMCP_SELECT_Set(true) and
\* the answer built by uMCP_CtrlSend, in the other cases the one built
\* inside uMCP_SELECT_Set
BuiltByPacket(a, in) ==
  IF ~a.ip_ready THEN 0
  ELSE IF a.ip_type \in {uMCP_PTYPE_STR, uMCP_PTYPE_STA}
  THEN Bind(uMCP_SELECT_Set(Cleared([a EXCEPT !.ip_ready = FALSE]), in, TRUE),
       LAMBDA p : One(p.ol_ready) + One(Replies(a.ip_type, p.state)))
  ELSE One(uMCP_OnIncomingPacket(Cleared(a), in).ol_ready)

\* the frames built in the pass of board s that finds the timers exp run
\* out and frame f complete (f empty: no frame): by uMCP_ITimers_Process,
\* by uMCP_OnIncomingPacket, and by the autostart or uMCP_Protocol_Perform
FramesBuilt(s, in, f, exp) ==
  Bind(uMCP_ITimers_Process(Cleared(Deframed(s, f)), in, exp),
  LAMBDA a3 :
  Bind(IF a3.ip_ready THEN uMCP_OnIncomingPacket(a3, in) ELSE a3,
  LAMBDA a4 :
    One(a3.ol_ready)
    + BuiltByPacket(a3, in)
    + (IF (a4.state = uMCP_STATE_HALTED) /\ (a4.ih_Cnt > 0)
       THEN 1
       ELSE One(uMCP_Protocol_Perform(Cleared(a4), in).ol_ready))))

\* C37: a pass of loop() builds at most one frame, whatever timer has run
\* out and whatever frame has become ready in it.
C37_OneFramePerPass ==
  \A f \in PeerFrames \cup {<< >>}, exp \in {{}, NextToExpire(node["A"])},
     in \in Inputs(node["A"], << >>) :
       FramesBuilt(node["A"], in, f, exp) <= 1


(***************************************************************************)
(* The deframer and the data block buffer.  ip_datablock has               *)
(* UMCP_MAX_DATA_SIZE bytes; the data-count byte of a frame is taken as it *)
(* arrives, and the bytes after it are stored at ip_pos - 8.  The frames   *)
(* below are well formed (both checksums match) and differ in the number   *)
(* of data bytes: one, a full buffer, and one byte more than the buffer.   *)
(***************************************************************************)
LongDataCount == UMCP_MAX_DATA_SIZE + 1

DataCounts == {1, UMCP_MAX_DATA_SIZE, LongDataCount}

PayloadOf(cnt) == [i \in 1 .. cnt |-> 64 + (i % 31)]

CountedFrames ==
  {DataFrame(t, c, r, PayloadOf(cnt)) :
     t \in DataTypes, c \in {1, 2}, r \in {0, 1}, cnt \in DataCounts}

\* the deframer of s kept to the buffer while it read frame f
StoredInside(s, f) ==
  Bind(Deframed(s, f),
  LAMBDA d :
    /\ s.oob \/ ~d.oob
    /\ ~(d.ip_ready /\ (d.ip_dcnt > UMCP_MAX_DATA_SIZE)))

\* C38: whatever data-count byte a data frame on the line carries, the
\* deframer stores its data bytes only at indices 0 .. UMCP_MAX_DATA_SIZE-1
\* of ip_datablock, and it never reports a ready frame whose data count is
\* greater than UMCP_MAX_DATA_SIZE.
C38_PayloadBound ==
  \A f \in CountedFrames :
     (~node["A"].ip_start /\ ~node["A"].ip_ready) => StoredInside(node["A"], f)


(***************************************************************************)
(* Sender and target ids.  The deframer keeps bytes 2 and 3 of a frame in  *)
(* ip_sid and ip_tid and, as every header byte, in the header checksum;    *)
(* uMCP_OnIncomingPacket copies them to sid and tid, which nothing reads.  *)
(* Readdressed(f, sid, tid) is frame f as a node with these ids would send *)
(* it: the two bytes replaced and the header checksum computed anew.       *)
(***************************************************************************)
\* <<sid, tid>> of the frames read
Addresses == { << 1, 2 >>, << 255, 255 >>, << CFG_DEFAULT_SID, UMCP_SIGN >>, << UMCP_SIGN, CFG_DEFAULT_TID >> }

Readdressed(f, sid, tid) ==
  Bind([f EXCEPT ![3] = sid, ![4] = tid],
  LAMBDA g : [g EXCEPT ![HchkPos(f[2])] = CRC8_Get(g, 0, HchkPos(f[2]) - 1)])

\* the frame with ids ad becomes ready as f does, and the pass of loop() that
\* reads it leaves the same node and writes the same bytes to the line and to
\* the host as the pass a that read f
SameEffect(s, a, f, ad, in) ==
  Bind(Readdressed(f, ad[1], ad[2]),
  LAMBDA g :
  Bind(Deframed(s, g),
  LAMBDA d :
  Bind(LoopAndWrite(s, in, << >>, g, {}),
  LAMBDA b :
    /\ g # f
    /\ d.ip_ready /\ (d.ip_sid = ad[1]) /\ (d.ip_tid = ad[2])
    /\ Forget(a.node) = Forget(b.node)
    /\ a.toLine = b.toLine
    /\ a.toHost = b.toHost)))

\* C39: the sender id and the target id of a frame are not checked: a frame
\* with any two id bytes and the matching header checksum becomes ready as
\* the frame with the default ids does, and the pass that reads it has the
\* same effect on the node (state, counters, timers, SELECT), on the host
\* output and on the frames sent.
C39_AddressesIgnored ==
  \A f \in PeerFrames, in \in Inputs(node["A"], << >>) :
     Bind(LoopAndWrite(node["A"], in, << >>, f, {}),
     LAMBDA a : \A ad \in Addresses : SameEffect(node["A"], a, f, ad, in))

\* a running node hands the byte of a data frame with foreign ids to the host
C39_Witness ==
  /\ node["A"].state = uMCP_STATE_RUNNING
  /\ node["A"].R = 0
  /\ LoopAndWrite(node["A"], NoInput, << >>,
                  Readdressed(DataFrame(uMCP_PTYPE_DTA, 1, 0, << 90 >>), 255, 1),
                  {}).toHost = << 90 >>


(***************************************************************************)
(* Quiescence of two boards.  Under SpecReply the host of A writes at most *)
(* MaxStartBytes bytes, the line loses nothing and keeps the order, and    *)
(* every frame on the line is read and every timer that runs runs out.     *)
(***************************************************************************)
\* every byte a host wrote was handed to the other host and acknowledged
Settled ==
  \A n \in Nodes :
     /\ node[n].A = node[n].N
     /\ node[n].sentBlocksCnt = 0
     /\ node[n].ih_Cnt = 0
     /\ hostOut[Peer(n)] = hostIn[n]

\* C40: once the hosts have stopped writing, the two nodes reach a state in
\* which every byte written was delivered and acknowledged (A = N,
\* sentBlocksCnt = 0 and an empty ring on both nodes), and from then on no
\* frame is on the line: the nodes do not exchange ACK or REP frames for ever.
C40_Quiescence == <>[](Settled /\ LineEmpty)

====
